---------------------------- MODULE Spec2Model ----------------------------
(***************************************************************************)
(* A model of xls/tools/z3_translator.cc: the scoped solver error handler, *)
(* the IR-to-solver encoder (Z3Translator), PredicateToObjective and       *)
(* TryProve.                                                               *)
(*                                                                         *)
(* Three specifications share the definitions below:                       *)
(*   SpecHandler  constructions/destructions of ScopedErrorHandler and     *)
(*                solver errors on a thread;                               *)
(*   Spec         CreateAndTranslate: the traversal of a function, one     *)
(*                visit per step;                                          *)
(*   SpecProve    TryProve, step by step.                                  *)
(***************************************************************************)
EXTENDS Naturals, Integers, Sequences, FiniteSets, TLC

VARIABLES
  \* ---- thread-local handler state (z3_translator.cc:52-82)
  g_handler,     \* thread_local ScopedErrorHandler* g_handler
  seh,           \* the ScopedErrorHandler objects: ctx_, prev_handler_, status_
  errHandler,    \* per solver context: the registered error callback
  checkFailed,   \* an XLS_CHECK_EQ(g_handler, this) has failed
  nullDeref,     \* Handler ran with g_handler == nullptr
  stack,         \* history: the live handlers in construction order
  lastOp,        \* history: the last handler operation and its inputs
  \* ---- Z3Translator::CreateAndTranslate
  borrowed_context_,  \* the translator's mode
  fnTypes,       \* the types of the nodes visited so far, in visiting order
  numParams,     \* the params among them
  translations,  \* translations_: node -> Z3_ast
  pc,            \* "accept": visiting; "returned": CreateAndTranslate is over
  returned,      \* what CreateAndTranslate returned
  crashed,       \* an XLS_CHECK of a handler failed
  reads,         \* history: the (node, term) pairs handlers have read
  lastVisit,     \* history: the last visit: node, injected error, status
  errRaised,     \* history: a solver error was raised during some visit
  \* ---- TryProve / PredicateToObjective
  prove,         \* the call in progress: position, arguments, solver calls made
  \* ---- the translator's helper functions, called on their own
  calc,          \* the last call: the function, its inputs, its result
  \* ---- the translators of a caller and the solver objects behind them
  own            \* each translator's mode and its config and context

hvars == <<g_handler, seh, errHandler, checkFailed, nullDeref, stack, lastOp>>
evars == <<borrowed_context_, fnTypes, numParams, translations, pc, returned, crashed,
           reads, lastVisit, errRaised>>

\* ------------------------------------------------------------------ bounds
MaxHandlers == 3       \* ScopedErrorHandler objects alive at once
NumCtx      == 2       \* solver contexts on the thread
MaxNodes    == 2       \* nodes of the function being translated
MaxWidth    == 2       \* widths of the Bits types the function's leaves have
MaxSize     == 2       \* sizes of its array types
MaxIndexWidth == 3     \* widths of the index of an ArrayIndex
MaxTranslators == 2    \* translators a caller creates

Null       == 0
HandlerIds == 1..MaxHandlers
Contexts   == 1..NumCtx
Msgs       == {"sort mismatch", "invalid argument"}   \* solver error messages

\* ------------------------------------------------------------------ status
OkStatus                 == [code |-> "Ok", msg |-> ""]
InternalError(m)         == [code |-> "Internal", msg |-> m]
InvalidArgumentError(m)  == [code |-> "InvalidArgument", msg |-> m]
UnimplementedError(m)    == [code |-> "Unimplemented", msg |-> m]

\* ---------------------------------------------------------------- IR types
\* Bits(n), Array(element_type, size), Tuple(element_types)
BitsT(n)     == <<"bits", n>>
ArrayT(e, s) == <<"array", e, s>>
TupleT(ts)   == <<"tuple", ts>>
Kind(t)      == t[1]
IsBits(t)    == Kind(t) = "bits"
IsArray(t)   == Kind(t) = "array"
IsTuple(t)   == Kind(t) = "tuple"

RECURSIVE SumSeq(_)
SumSeq(s) == IF s = <<>> THEN 0 ELSE s[1] + SumSeq(Tail(s))

\* Type::GetFlatBitCount
RECURSIVE GetFlatBitCount(_)
GetFlatBitCount(t) ==
  CASE IsBits(t)  -> t[2]
    [] IsArray(t) -> t[3] * GetFlatBitCount(t[2])
    [] IsTuple(t) -> SumSeq([i \in DOMAIN t[2] |-> GetFlatBitCount(t[2][i])])

\* The least k with 2^k >= max(v, 1).
CeilLog2(v) ==
  CHOOSE k \in 0..v : 2 ^ k >= v /\ (k = 0 \/ 2 ^ (k - 1) < v)

\* Bits::MinBitCountUnsigned(value): the bits needed to write value.
RECURSIVE MinBitCountUnsigned(_)
MinBitCountUnsigned(v) ==
  IF v = 0 THEN 0 ELSE 1 + MinBitCountUnsigned(v \div 2)

\* ------------------------------------------------------------ solver sorts
BvSort(n)          == <<"bv", n>>
BoolSort           == <<"bool">>
ArraySort(d, r)    == <<"arraysort", d, r>>
\* Z3_mk_tuple_sort: a datatype sort, named after the IR type's string.
TupleSort(name, f) == <<"datatype", name, f>>
BadSort            == <<"bad">>      \* no sort: the call was ill-sorted
IsBv(s)            == s[1] = "bv"
BvSize(s)          == s[2]           \* Z3_get_bv_sort_size

\* Z3_get_sort_kind
SortKind(s) ==
  CASE s[1] = "bv"        -> "Z3_BV_SORT"
    [] s[1] = "bool"      -> "Z3_BOOL_SORT"
    [] s[1] = "arraysort" -> "Z3_ARRAY_SORT"
    [] s[1] = "datatype"  -> "Z3_DATATYPE_SORT"
    [] OTHER              -> "Z3_UNKNOWN_SORT"

\* Z3_mk_bv_sort(ctx, n): the solver has no bit-vectors of width 0.
MkBvSort(n) == IF n >= 1 THEN BvSort(n) ELSE BadSort

\* Z3Translator::TypeToSort and CreateTupleSort
RECURSIVE TypeToSort(_)
TypeToSort(t) ==
  CASE IsBits(t)  -> BvSort(GetFlatBitCount(t))
    [] IsTuple(t) -> TupleSort(t, [i \in DOMAIN t[2] |-> TypeToSort(t[2][i])])
    [] IsArray(t) -> ArraySort(MkBvSort(MinBitCountUnsigned(t[3])),
                               TypeToSort(t[2]))

\* ------------------------------------------------------------ solver terms
\* A Z3_ast is the tree the solver's constructors build.  NullAst is what a
\* constructor returns when it reports an error.  A Z3_ast is a pointer: the
\* term recorded for node n, used as an argument, is <<"ref", n, sort>>.
NullAst == <<"null">>

UnaryBv  == {"bvnot", "bvneg"}
BinaryBv == {"bvadd", "bvsub", "bvand", "bvor", "bvxor", "bvmul",
             "bvashr", "bvlshr", "bvshl"}

\* The one element of a singleton set.
Only(S) == CHOOSE x \in S : TRUE

\* The sequence s with every element computed: TLC keeps a function
\* constructor unevaluated and computes an element anew at each use.
Strict(s) == s @@ <<>>

\* The solver's sort rule for the application a whose argument terms have
\* the sorts s (in order); an ill-sorted application has no sort.
SortRule(a, s) ==
  LET tag == a[1] IN
  CASE tag = "const"   -> a[3]                       \* <<tag, name, sort>>
    [] tag = "numeral" ->                            \* <<tag, bits>>
         IF Len(a[2]) >= 1 THEN BvSort(Len(a[2])) ELSE BadSort
    [] tag = "int"     -> a[3]                       \* <<tag, value, sort>>
    [] tag = "ref"     -> a[3]                       \* <<tag, node, sort>>
    [] tag \in UnaryBv -> IF IsBv(s[1]) THEN s[1] ELSE BadSort
    [] tag = "bvredor" -> IF IsBv(s[1]) THEN BvSort(1) ELSE BadSort
    [] tag \in BinaryBv -> IF IsBv(s[1]) /\ s[1] = s[2] THEN s[1] ELSE BadSort
    [] tag = "concat" ->
         IF IsBv(s[1]) /\ IsBv(s[2]) THEN BvSort(BvSize(s[1]) + BvSize(s[2]))
                                     ELSE BadSort
    [] tag = "bvult" -> IF IsBv(s[1]) /\ s[1] = s[2] THEN BoolSort ELSE BadSort
    [] tag = "eq"  -> IF s[1] # BadSort /\ s[1] = s[2] THEN BoolSort ELSE BadSort
    [] tag = "not" -> IF s[1] = BoolSort THEN BoolSort ELSE BadSort
    [] tag = "ite" ->
         IF s[1] = BoolSort /\ s[2] # BadSort /\ s[2] = s[3] THEN s[2]
                                                             ELSE BadSort
    [] tag \in {"zero_ext", "sign_ext"} ->           \* <<tag, i, arg>>
         IF IsBv(s[1]) /\ a[2] >= 0 THEN BvSort(BvSize(s[1]) + a[2]) ELSE BadSort
    [] tag = "extract" ->                            \* <<tag, high, low, arg>>
         IF IsBv(s[1]) /\ 0 <= a[3] /\ a[3] <= a[2] /\ a[2] < BvSize(s[1])
           THEN BvSort(a[2] - a[3] + 1) ELSE BadSort
    [] tag = "const_array" ->                        \* <<tag, domain, value>>
         IF a[2] # BadSort /\ s[1] # BadSort THEN ArraySort(a[2], s[1])
                                             ELSE BadSort
    [] tag = "store" ->                              \* <<tag, array, i, v>>
         IF s[1][1] = "arraysort" /\ s[2] = s[1][2] /\ s[3] = s[1][3]
           THEN s[1] ELSE BadSort
    [] tag = "select" ->                             \* <<tag, array, i>>
         IF s[1][1] = "arraysort" /\ s[2] = s[1][2] THEN s[1][3] ELSE BadSort
    [] tag = "mk_tuple" ->                           \* <<tag, sort, elements>>
         IF a[2][1] = "datatype" /\ Len(s) = Len(a[2][3])
            /\ \A i \in DOMAIN s : s[i] = a[2][3][i]
           THEN a[2] ELSE BadSort
    [] tag = "field" ->                              \* <<tag, i, tuple>>
         IF s[1][1] = "datatype" /\ a[2] \in DOMAIN s[1][3]
           THEN s[1][3][a[2]] ELSE BadSort
    [] OTHER -> BadSort

\* The argument terms of the application a.
Args(a) ==
  LET tag == a[1] IN
  CASE tag \in UnaryBv \cup {"bvredor", "not"} -> <<a[2]>>
    [] tag \in BinaryBv \cup {"concat", "bvult", "eq", "select"} -> <<a[2], a[3]>>
    [] tag \in {"ite", "store"} -> <<a[2], a[3], a[4]>>
    [] tag \in {"zero_ext", "sign_ext", "const_array", "field"} -> <<a[3]>>
    [] tag = "extract"  -> <<a[4]>>
    [] tag = "mk_tuple" -> a[3]
    [] OTHER -> <<>>

\* Z3_get_sort, with the solver's sort checking.
RECURSIVE SortOf(_)
SortsOf(args) ==
  CASE Len(args) = 0 -> <<>>
    [] Len(args) = 1 -> <<SortOf(args[1])>>
    [] Len(args) = 2 -> <<SortOf(args[1]), SortOf(args[2])>>
    [] Len(args) = 3 -> <<SortOf(args[1]), SortOf(args[2]), SortOf(args[3])>>
    [] OTHER -> [i \in DOMAIN args |-> SortOf(args[i])]

SortOf(a) ==
  Only({Only({SortRule(x, s) : s \in {SortsOf(Args(x))}}) : x \in {a}})

\* What a constructor returns: the term, or null for an ill-sorted one.
Checked(a) == Only({IF SortOf(x) = BadSort THEN NullAst ELSE x : x \in {a}})


\* --------------------------------------------------------- Z3OpTranslator
Sub(lhs, rhs)  == <<"bvsub", lhs, rhs>>
And(lhs, rhs)  == <<"bvand", lhs, rhs>>
Or(lhs, rhs)   == <<"bvor", lhs, rhs>>
Xor(lhs, rhs)  == <<"bvxor", lhs, rhs>>
Not(arg)       == <<"bvnot", arg>>
ReduceOr(arg)  == <<"bvredor", arg>>
EqZero(arg)    == Not(<<"bvredor", arg>>)
Eq(lhs, rhs)   == EqZero(Xor(lhs, rhs))
ZextBy1b(arg)  == <<"zero_ext", 1, arg>>
SextBy1b(arg)  == <<"sign_ext", 1, arg>>
Extract(arg, bitno) == <<"extract", bitno, bitno, arg>>

\* GetBvBitCount: Z3_get_bv_sort_size of the term's sort (0 if it has none).
GetBvBitCount(arg) == IF IsBv(SortOf(arg)) THEN BvSize(SortOf(arg)) ELSE 0

\* ExplodeBits: the LSb is element 1 of the result (index 0 in the source).
ExplodeBits(arg) == [i \in 1..GetBvBitCount(arg) |-> Extract(arg, i - 1)]

Msb(arg) == Extract(arg, GetBvBitCount(arg) - 1)

\* ConcatN: args[1] supplies the MSb, the last element the LSb.
RECURSIVE ConcatFrom(_, _, _)
ConcatFrom(accum, args, i) ==
  IF i > Len(args) THEN accum
  ELSE ConcatFrom(<<"concat", accum, args[i]>>, args, i + 1)

ConcatN(args) == ConcatFrom(args[1], args, 2)

\* ULt without the extra bit: the MSb of the difference at the operands' width.
ULtNoExtend(lhs, rhs) == Msb(Sub(lhs, rhs))
ULt(lhs, rhs) == Msb(Sub(ZextBy1b(lhs), ZextBy1b(rhs)))
\* SLt with the operands zero-extended, as ULt has them.
SLtZeroExtended(lhs, rhs) == Msb(Sub(ZextBy1b(lhs), ZextBy1b(rhs)))
SLt(lhs, rhs) == Msb(Sub(SextBy1b(lhs), SextBy1b(rhs)))

Min(lhs, rhs) == <<"ite", <<"bvult", lhs, rhs>>, lhs, rhs>>

\* Fill(value, bit_count): Z3_mk_bv_numeral of bit_count copies of value.
Fill(value, bit_count) == <<"numeral", [i \in 1..bit_count |-> value]>>

\* The "Bool" forms, for solver assertions.
EqZeroBool(arg) == <<"eq", arg, Fill(FALSE, GetBvBitCount(arg))>>
\* NeZeroBool without its negation.
NeZeroBoolUnnegated(arg) == EqZeroBool(arg)
NeZeroBool(arg) == <<"not", EqZeroBool(arg)>>
NeBool(lhs, rhs) == <<"not", <<"eq", lhs, rhs>>>>

Reverse(s) == [i \in 1..Len(s) |-> s[Len(s) + 1 - i]]

\* ------------------------------------------------- Z3AbstractEvaluator
\* The evaluator's five primitives over 1-bit solver terms.
EvOne  == Fill(TRUE, 1)
EvZero == Fill(FALSE, 1)

RECURSIVE OrFold(_, _, _)
OrFold(acc, xs, i) ==
  IF i > Len(xs) THEN acc ELSE OrFold(Or(acc, xs[i]), xs, i + 1)

RECURSIVE AndFold(_, _, _)
AndFold(acc, xs, i) ==
  IF i > Len(xs) THEN acc ELSE AndFold(And(acc, xs[i]), xs, i + 1)

\* Bit j (0-based) of the number i.
BitOf(i, j) == (i \div (2 ^ j)) % 2 = 1

\* AbstractEvaluator::Encode: result bit j is the or of the inputs whose
\* index has bit j set; the result has MinBitCountUnsigned(size - 1) bits.
EvEncode(input) ==
  [j \in 1..MinBitCountUnsigned(Len(input) - 1) |->
     OrFold(EvZero,
            SelectSeq([i \in 1..Len(input) |->
                         IF BitOf(i - 1, j - 1) THEN input[i] ELSE NullAst],
                      LAMBDA x : x # NullAst),
            1)]

\* "No input of index < i is set" (LSb priority) as a 1-bit term.
NoneBelow(input, i) ==
  AndFold(EvOne, [k \in 1..(i - 1) |-> Not(input[k])], 1)

\* "No input of index > i is set" (MSb priority).
NoneAbove(input, i) ==
  AndFold(EvOne, [k \in 1..(Len(input) - i) |-> Not(input[Len(input) + 1 - k])], 1)

\* AbstractEvaluator::OneHotLsbToMsb / OneHotMsbToLsb: size + 1 result bits,
\* the last one set when no input bit is.
EvOneHot(input, lsb_prio) ==
  [i \in 1..(Len(input) + 1) |->
     IF i = Len(input) + 1 THEN NoneBelow(input, i)
     ELSE IF lsb_prio THEN And(NoneBelow(input, i), input[i])
     ELSE And(NoneAbove(input, i), input[i])]

\* AbstractEvaluator::OneHotSelect: bit j of the result is the or over the
\* cases of (selector bit i and bit j of case i).
EvOneHotSelect(selector, cases) ==
  [j \in 1..Len(cases[1]) |->
     OrFold(EvZero,
            [i \in 1..Len(selector) |-> And(cases[i][j], selector[i])], 1)]

\* Equals(selector, i) as a 1-bit term: every bit agrees with the bit of i.
EvEqualsConst(selector, i) ==
  AndFold(EvOne,
          [k \in 1..Len(selector) |->
             IF BitOf(i, k - 1) THEN selector[k] ELSE Not(selector[k])], 1)

\* AbstractEvaluator::Select: the binary selector is made one-hot; a default
\* is the case of every selector value past the last case.
EvSelect(selector, cases, has_default, default_value) ==
  LET one_hot == [i \in 1..Len(cases) |-> EvEqualsConst(selector, i - 1)]
      past    == Not(OrFold(EvZero, one_hot, 1))
  IN  IF has_default
        THEN EvOneHotSelect(Append(one_hot, past), Append(cases, default_value))
        ELSE EvOneHotSelect(one_hot, cases)

\* AbstractEvaluate(op, {input_bits}, evaluator) for the unary ops lowered
\* through the evaluator.
AbstractEvaluate(node, input_bits) ==
  CASE node.op = "reverse" -> Reverse(input_bits)
    [] node.op = "encode"  -> EvEncode(input_bits)
    [] node.op = "one_hot" -> EvOneHot(input_bits, node.attr = 1)

\* ------------------------------------------------------------ Z3Translator
\* A node of the function: [id, op, operands, type, attr].  attr is the
\* op's own attribute: bit_slice start, tuple_index index, the literal's
\* value, the param's position, one_hot's lsb priority, sel's "has default".

\* IR values: <<"bits", bools LSb first>>, <<"array", values>>,
\* <<"tuple", values>>.
IsBitsValue(v)  == v[1] = "bits"
IsArrayValue(v) == v[1] = "array"

Max(a, b) == IF a >= b THEN a ELSE b

\* Z3Translator::GetValue: the term recorded for the node (a pointer).
GetValue(tr, m) ==
  IF tr[m][1] \in {"ref", "null"} THEN tr[m]
  ELSE <<"ref", m, SortOf(tr[m])>>

\* Z3Translator::GetBitVec's two checks on the value of node m.
GetBitVecChecks(tr, ty, m) ==
  /\ SortKind(SortOf(GetValue(tr, m))) = "Z3_BV_SORT"
  /\ GetFlatBitCount(ty[m]) = BvSize(SortOf(GetValue(tr, m)))

\* Z3Translator::NoteTranslation, forgetting every earlier entry.
NoteTranslationOnly(tr, n, translated) == n :> translated

\* Z3Translator::NoteTranslation: translations_[node] = translated
NoteTranslation(tr, n, translated) ==
  [m \in DOMAIN tr \cup {n} |-> IF m = n THEN translated ELSE tr[m]]

\* Z3Translator::CreateTuple(Type*, elements)
CreateTuple(tuple_type, elements) ==
  <<"mk_tuple", TypeToSort(tuple_type), elements>>

\* Z3Translator::ZeroOfSort
RECURSIVE ZeroOfSort(_)
ZeroOfSort(sort) ==
  CASE sort[1] = "bv"        -> <<"int", 0, sort>>
    [] sort[1] = "arraysort" -> <<"const_array", sort[2], ZeroOfSort(sort[3])>>
    [] sort[1] = "datatype"  ->
         <<"mk_tuple", sort, [i \in DOMAIN sort[3] |-> ZeroOfSort(sort[3][i])]>>

RECURSIVE StoreFrom(_, _, _, _, _)
StoreFrom(z3_array, elements, i, size, index_sort) ==
  IF i >= size THEN z3_array
  ELSE StoreFrom(<<"store", z3_array, <<"int", i, index_sort>>, elements[i + 1]>>,
                 elements, i + 1, size, index_sort)

\* Z3Translator::CreateArray
CreateArray(type, elements) ==
  LET element_sort  == TypeToSort(type[2])
      default_value == ZeroOfSort(element_sort)
      index_sort    == MkBvSort(MinBitCountUnsigned(type[3]))
  IN  StoreFrom(<<"const_array", index_sort, default_value>>, elements, 0,
                type[3], index_sort)

\* Z3Translator::TranslateLiteralValue
RECURSIVE TranslateLiteralValue(_, _)
TranslateLiteralValue(value_type, value) ==
  IF IsBitsValue(value) THEN <<"numeral", value[2]>>
  ELSE IF IsArrayValue(value)
    THEN CreateArray(value_type,
           [i \in DOMAIN value[2] |->
              TranslateLiteralValue(value_type[2], value[2][i])])
    ELSE CreateTuple(value_type,
           [i \in 1..Len(value_type[2]) |->
              TranslateLiteralValue(value_type[2][i], value[2][i])])

\* Z3Translator::GetArrayElement: the index is cast to the array's index
\* width, clamped to size - 1, and selected.
GetArrayElement(array_type, array, index) ==
  LET target_width == MinBitCountUnsigned(array_type[3])
      z3_width     == GetBvBitCount(index)
      cast == IF z3_width < target_width
                THEN <<"zero_ext", target_width - z3_width, index>>
              ELSE IF z3_width > target_width
                THEN <<"extract", MinBitCountUnsigned(array_type[3]) - 1, 0, index>>
              ELSE index
      array_max_index == <<"int", array_type[3] - 1, SortOf(cast)>>
  IN  <<"select", array, Min(cast, array_max_index)>>

RECURSIVE ConcatSeqs(_)
ConcatSeqs(ss) == IF ss = <<>> THEN <<>> ELSE ss[1] \o ConcatSeqs(Tail(ss))

\* Z3Translator::FlattenValue: LSb-first bits; element 0 / field 0 first.
RECURSIVE FlattenValue(_, _)
FlattenValue(type, value) ==
  CASE IsBits(type)  -> ExplodeBits(value)
    [] IsArray(type) ->
         LET index_sort == MkBvSort(MinBitCountUnsigned(type[3])) IN
         ConcatSeqs([i \in 1..type[3] |->
           FlattenValue(type[2],
             GetArrayElement(type, value, <<"int", i - 1, index_sort>>))])
    [] IsTuple(type) ->
         ConcatSeqs([i \in 1..Len(type[2]) |->
           FlattenValue(type[2][i], <<"field", i, value>>)])

\* flat.subspan(high - bits, bits), with flat indexed from 0 in the source.
Subspan(flat, pos, len) == SubSeq(flat, pos + 1, pos + len)

\* UnflattenZ3Ast consuming flat from its start: element 0 / field 0 takes
\* the first bits of flat.
RECURSIVE UnflattenFromStart(_, _)
UnflattenFromStart(type, flat) ==
  CASE IsBits(type)  -> ConcatN(flat)
    [] IsArray(type) ->
         LET element_bits == GetFlatBitCount(type[2])
         IN  CreateArray(type,
               [i \in 1..type[3] |->
                  UnflattenFromStart(type[2],
                    Subspan(flat, (i - 1) * element_bits, element_bits))])
    [] IsTuple(type) ->
         LET bits(i) == GetFlatBitCount(type[2][i])
             low(i)  == SumSeq([k \in 1..(i - 1) |-> bits(k)])
         IN  CreateTuple(type,
               [i \in 1..Len(type[2]) |->
                  UnflattenFromStart(type[2][i],
                    Subspan(flat, low(i), bits(i)))])

\* Z3Translator::UnflattenZ3Ast: consumes flat from its end towards its
\* start, element 0 / field 0 taking the last bits of flat.
RECURSIVE UnflattenZ3Ast(_, _)
UnflattenZ3Ast(type, flat) ==
  CASE IsBits(type)  -> ConcatN(flat)
    [] IsArray(type) ->
         LET element_bits == GetFlatBitCount(type[2])
             high(i) == GetFlatBitCount(type) - (i - 1) * element_bits
         IN  CreateArray(type,
               [i \in 1..type[3] |->
                  UnflattenZ3Ast(type[2],
                    Subspan(flat, high(i) - element_bits, element_bits))])
    [] IsTuple(type) ->
         LET bits(i) == GetFlatBitCount(type[2][i])
             high(i) == GetFlatBitCount(type)
                          - SumSeq([k \in 1..(i - 1) |-> bits(k)])
         IN  CreateTuple(type,
               [i \in 1..Len(type[2]) |->
                  UnflattenZ3Ast(type[2][i],
                    Subspan(flat, high(i) - bits(i), bits(i)))])

\* Z3Translator::HandleMul without the final truncation to the result width.
HandleMulNoExtract(result_size, lhs0, rhs0, is_signed) ==
  LET lhs_size == GetBvBitCount(lhs0)
      rhs_size == GetBvBitCount(rhs0)
      operand_size == Max(Max(lhs_size, rhs_size), result_size)
      ext == IF is_signed THEN "sign_ext" ELSE "zero_ext"
      lhs == IF lhs_size # operand_size
               THEN <<ext, operand_size - lhs_size, lhs0>> ELSE lhs0
      rhs == IF rhs_size # operand_size
               THEN <<ext, operand_size - rhs_size, rhs0>> ELSE rhs0
  IN  <<"bvmul", lhs, rhs>>

\* Z3Translator::HandleMul: both operands are extended to the widest of
\* lhs, rhs and result (one bit more when unsigned), multiplied, truncated.
HandleMul(result_size, lhs0, rhs0, is_signed) ==
  LET lhs_size == GetBvBitCount(lhs0)
      rhs_size == GetBvBitCount(rhs0)
      size0    == Max(Max(lhs_size, rhs_size), result_size)
      operand_size == IF is_signed THEN size0 ELSE size0 + 1
      ext == IF is_signed THEN "sign_ext" ELSE "zero_ext"
      lhs == IF lhs_size # operand_size
               THEN <<ext, operand_size - lhs_size, lhs0>> ELSE lhs0
      rhs == IF rhs_size # operand_size
               THEN <<ext, operand_size - rhs_size, rhs0>> ELSE rhs0
      result == <<"bvmul", lhs, rhs>>
  IN  IF operand_size # result_size
        THEN <<"extract", result_size - 1, 0, result>> ELSE result

CompareOps     == {"ule", "ult", "uge", "ugt", "sgt", "sle", "slt", "sge",
                   "eq", "ne"}
ShiftOps       == {"shra", "shrl", "shll"}
NaryOps        == {"and", "nand", "nor", "or", "xor"}
AbstractEvalOps == {"encode", "one_hot", "reverse"}
\* Opcodes the translator has no handler for: they reach DefaultHandler.
UnsupportedOps == {"udiv", "decode"}

\* The function each Handle<Compare> passes to HandleBinary.
CompareAst(op, lhs, rhs) ==
  CASE op = "ule" -> ReduceOr(Or(ULt(lhs, rhs), Eq(lhs, rhs)))
    [] op = "ult" -> ULt(lhs, rhs)
    [] op = "uge" -> Not(ULt(lhs, rhs))
    [] op = "ugt" -> Not(Or(Eq(lhs, rhs), ULt(lhs, rhs)))
    [] op = "sgt" -> Not(ReduceOr(Or(SLt(lhs, rhs), Eq(lhs, rhs))))
    [] op = "sle" -> ReduceOr(Or(SLt(lhs, rhs), Eq(lhs, rhs)))
    [] op = "slt" -> SLt(lhs, rhs)
    [] op = "sge" -> Not(SLt(lhs, rhs))
    [] op = "eq"  -> Not(ReduceOr(Xor(lhs, rhs)))
    [] op = "ne"  -> ReduceOr(Xor(lhs, rhs))

\* Z3Translator::HandleShift: a narrower amount is zero-extended first.
HandleShift(op, lhs, rhs, lhs_bit_count, rhs_bit_count) ==
  LET amount == IF rhs_bit_count # lhs_bit_count
                  THEN <<"zero_ext", lhs_bit_count - rhs_bit_count, rhs>>
                  ELSE rhs
  IN  CASE op = "shra" -> <<"bvashr", lhs, amount>>
        [] op = "shrl" -> <<"bvlshr", lhs, amount>>
        [] op = "shll" -> <<"bvshl", lhs, amount>>

RECURSIVE NaryFold(_, _, _, _)
NaryFold(f, accum, args, i) ==
  IF i > Len(args) THEN accum
  ELSE NaryFold(f, <<f, accum, args[i]>>, args, i + 1)

\* Z3Translator::HandleNary: a left fold of f, inverted at the end if asked.
HandleNary(op, args) ==
  LET f == CASE op \in {"and", "nand"} -> "bvand"
             [] op \in {"or", "nor"}   -> "bvor"
             [] op = "xor"             -> "bvxor"
             [] op = "concat"          -> "concat"
      accum == NaryFold(f, args[1], args, 2)
  IN  IF op \in {"nand", "nor"} THEN Not(accum) ELSE accum

\* Z3Translator::HandleUnaryViaAbstractEval: explode, evaluate, reverse (the
\* evaluator's bit 0 is the LSb, ConcatN's argument 0 the MSb), concatenate.
HandleUnaryViaAbstractEval(node, operand) ==
  ConcatN(Reverse(AbstractEvaluate(node, ExplodeBits(operand))))

\* Z3Translator::HandleSelect with HandleSel's / HandleOneHotSel's evaluator.
HandleSelect(tr, ty, node) ==
  LET ops      == node.operands
      selector == ExplodeBits(GetValue(tr, ops[1]))
      ncases   == IF node.op = "sel" /\ node.attr = 1
                    THEN Len(ops) - 2 ELSE Len(ops) - 1
      case_elements == [i \in 1..ncases |->
                          Strict(FlattenValue(ty[ops[i + 1]],
                                              GetValue(tr, ops[i + 1])))]
      default_value == FlattenValue(ty[ops[Len(ops)]],
                                    GetValue(tr, ops[Len(ops)]))
      flat_results(in) ==
        IF node.op = "one_hot_sel"
          THEN EvOneHotSelect(in[1], in[2])
          ELSE EvSelect(in[1], in[2], node.attr = 1, in[3])
  IN  Only({UnflattenZ3Ast(node.type, flat) :
              flat \in {Strict(Reverse(flat_results(in))) :
                          in \in {<<Strict(selector), Strict(case_elements),
                                    Strict(default_value)>>}}})

\* The caller's term for parameter i in borrowed mode.
ImportedParam(i, type) == <<"const", <<"imported", i>>, TypeToSort(type)>>

\* The term the node's handler builds (before it is recorded).
Translate(tr, ty, node, borrowed) ==
  LET op   == node.op
      ops  == node.operands
      v(i) == GetValue(tr, ops[i])
  IN
  CASE op = "param" ->
         IF borrowed THEN ImportedParam(node.attr, node.type)
         ELSE <<"const", <<"param", node.attr>>, TypeToSort(node.type)>>
    [] op = "literal"  -> TranslateLiteralValue(node.type, node.value)
    [] op = "add"      -> <<"bvadd", v(1), v(2)>>
    [] op = "sub"      -> <<"bvsub", v(1), v(2)>>
    [] op \in CompareOps -> CompareAst(op, v(1), v(2))
    [] op \in ShiftOps ->
         HandleShift(op, v(1), v(2), ty[ops[1]][2], ty[ops[2]][2])
    [] op \in NaryOps \cup {"concat"} ->
         HandleNary(op, [i \in DOMAIN ops |-> v(i)])
    [] op = "array" ->
         CreateArray(node.type, [i \in DOMAIN ops |-> v(i)])
    [] op = "tuple" ->
         CreateTuple(node.type, [i \in DOMAIN ops |-> v(i)])
    [] op = "array_index" -> GetArrayElement(ty[ops[1]], v(1), v(2))
    [] op = "tuple_index" -> <<"field", node.attr + 1, v(1)>>
    [] op \in AbstractEvalOps -> HandleUnaryViaAbstractEval(node, v(1))
    [] op = "neg"      -> <<"bvneg", v(1)>>
    [] op = "not"      -> <<"bvnot", v(1)>>
    [] op = "identity" -> v(1)
    [] op = "sign_ext" -> <<"sign_ext", node.type[2] - ty[ops[1]][2], v(1)>>
    [] op = "zero_ext" -> <<"zero_ext", node.type[2] - ty[ops[1]][2], v(1)>>
    [] op = "bit_slice" ->
         <<"extract", node.attr + node.type[2] - 1, node.attr, v(1)>>
    [] op \in {"sel", "one_hot_sel"} -> HandleSelect(tr, ty, node)
    [] op = "smul" -> HandleMul(node.type[2], v(1), v(2), TRUE)
    [] op = "umul" -> HandleMul(node.type[2], v(1), v(2), FALSE)

\* The operands the handler reads with GetBitVec (the others: GetValue).
BitVecOperands(node) ==
  IF node.op \in {"add", "sub", "neg", "not", "concat", "sign_ext", "zero_ext",
                  "bit_slice"}
                   \cup CompareOps \cup ShiftOps \cup NaryOps \cup AbstractEvalOps
    THEN {node.operands[i] : i \in DOMAIN node.operands}
  ELSE IF node.op \in {"sel", "one_hot_sel"} THEN {node.operands[1]}
  ELSE {}

\* Every XLS_CHECK of the node's handler passes.
HandlerChecks(tr, ty, node) ==
  /\ \A m \in {node.operands[i] : i \in DOMAIN node.operands} : m \in DOMAIN tr
  /\ \A m \in BitVecOperands(node) : GetBitVecChecks(tr, ty, m)
  /\ node.op \in ShiftOps =>
       (ty[node.operands[1]][2] >= ty[node.operands[2]][2])
  /\ node.op \in AbstractEvalOps =>
       node.type[2] = GetBvBitCount(Translate(tr, ty, node, FALSE))

\* The handlers that install a ScopedErrorHandler for the visit.
HasScopedErrorHandler(op) == op \notin {"tuple", "identity"} \cup UnsupportedOps

\* The handlers that call the solver at all.
CallsSolver(op) == op \notin {"identity"} \cup UnsupportedOps

\* Node::ToString, as far as it matters: one string per node.
NodeToString(id) == "node." \o ToString(id)

\* A DefaultHandler that reports success.
DefaultHandlerOk(node) == OkStatus

\* Z3Translator::DefaultHandler
DefaultHandler(node) ==
  UnimplementedError("Unhandled node for conversion: " \o NodeToString(node.id))

\* ------------------------------------------------- ScopedErrorHandler
\* The handler state as one value, so that the constructor, the destructor
\* and the callback are functions the encoder's visits can compose.
HState(g, objs, eh, cf, nd) ==
  [g |-> g, objs |-> objs, eh |-> eh, checkFailed |-> cf, nullDeref |-> nd]

DeadObj == [live |-> FALSE, ctx |-> Null, prev |-> Null, status |-> OkStatus]

\* ScopedErrorHandler::ScopedErrorHandler(ctx)
SehCtor(hs, this, ctx) ==
  [hs EXCEPT
     !.eh[ctx]    = "Handler",
     !.objs[this] = [live |-> TRUE, ctx |-> ctx, prev |-> hs.g,
                     status |-> OkStatus],
     !.g          = this]

\* A destructor that forgets to restore the predecessor.
SehDtorNoRestore(hs, this) ==
  [hs EXCEPT
     !.eh[hs.objs[this].ctx] = "null",
     !.checkFailed = @ \/ (hs.g # this),
     !.g           = Null,
     !.objs[this]  = DeadObj]

\* ScopedErrorHandler::~ScopedErrorHandler()
SehDtor(hs, this) ==
  [hs EXCEPT
     !.eh[hs.objs[this].ctx] = "null",
     !.checkFailed = @ \/ (hs.g # this),
     !.g           = hs.objs[this].prev,
     !.objs[this]  = DeadObj]

\* ScopedErrorHandler::Handler(c, e): the static callback.
Handler(hs, m) ==
  IF hs.g = Null
    THEN [hs EXCEPT !.nullDeref = TRUE]
    ELSE [hs EXCEPT !.objs[hs.g].status = InternalError("Z3 error: " \o m)]

\* The solver reports an error on context ctx: it calls the context's
\* registered callback, if there is one.
Z3Error(hs, ctx, m) ==
  IF hs.eh[ctx] = "Handler" THEN Handler(hs, m) ELSE hs

\* seh.status()
SehStatus(hs, this) == hs.objs[this].status

CurH == HState(g_handler, seh, errHandler, checkFailed, nullDeref)

SetH(hs) ==
  /\ g_handler'   = hs.g
  /\ seh'         = hs.objs
  /\ errHandler'  = hs.eh
  /\ checkFailed' = hs.checkFailed
  /\ nullDeref'   = hs.nullDeref

Top(s) == IF s = <<>> THEN Null ELSE s[Len(s)]

NoOp == [op |-> "none", h |-> Null, ctx |-> Null, msg |-> ""]

InitH ==
  /\ g_handler   = Null
  /\ seh         = [h \in HandlerIds |-> DeadObj]
  /\ errHandler  = [c \in Contexts |-> "null"]
  /\ checkFailed = FALSE
  /\ nullDeref   = FALSE
  /\ stack       = <<>>
  /\ lastOp      = NoOp

\* A scope is entered: a handler object is constructed on some context.
Construct ==
  \E h \in HandlerIds, c \in Contexts :
    /\ ~seh[h].live
    /\ SetH(SehCtor(CurH, h, c))
    /\ stack'  = Append(stack, h)
    /\ lastOp' = [op |-> "ctor", h |-> h, ctx |-> c, msg |-> ""]
    /\ UNCHANGED <<evars, prove, calc, own>>

\* A scope is left: scopes nest, so the innermost live handler is destroyed.
Destruct ==
  /\ stack # <<>>
  /\ SetH(SehDtor(CurH, Top(stack)))
  /\ stack'  = SubSeq(stack, 1, Len(stack) - 1)
  /\ lastOp' = [op |-> "dtor", h |-> Top(stack), ctx |-> seh[Top(stack)].ctx,
                msg |-> ""]
  /\ UNCHANGED <<evars, prove, calc, own>>

\* A solver call on context c fails with message m.
RaiseError ==
  \E c \in Contexts, m \in Msgs :
    /\ SetH(Z3Error(CurH, c, m))
    /\ lastOp' = [op |-> "error", h |-> Top(stack), ctx |-> c, msg |-> m]
    /\ UNCHANGED <<stack, evars, prove, calc, own>>

NextHandler == Construct \/ Destruct \/ RaiseError

vars == <<hvars, evars, prove, calc, own>>

\* ------------------------------------------------ CreateAndTranslate
CtxOfTranslator == 1       \* ctx_: the one context the translator works on

FreeHandler(hs) == CHOOSE h \in HandlerIds : ~hs.objs[h].live

\* An operand of the node has the null term.
UsesNull(tr, node) ==
  /\ CallsSolver(node.op)
  /\ \E i \in DOMAIN node.operands : tr[node.operands[i]] = NullAst

\* The end of a handler that has built the term `built`: the solver has
\* raised an error if it reports one by itself (err) or the term is
\* ill-sorted; the term (null after an error) is recorded and the status of
\* the visit's ScopedErrorHandler, where the handler has one, is returned.
\* HandleUnaryViaAbstractEval checks the width of its result first.
Record(tr, hs, node, err, built) ==
  LET raised == err # "none" \/ (CallsSolver(node.op) /\ built = NullAst)
      msg    == IF err # "none" THEN err ELSE "invalid argument"
      translated == IF raised THEN NullAst ELSE built
      this   == FreeHandler(hs)
      hs1    == SehCtor(hs, this, CtxOfTranslator)
      hs2    == IF raised THEN Z3Error(hs1, CtxOfTranslator, msg) ELSE hs1
  IN  IF node.op \in AbstractEvalOps /\ raised
        \* XLS_CHECK_EQ(op->BitCountOrDie(), t.GetBvBitCount(result)) on the
        \* null result: the process dies before the status is returned.
        THEN [tr |-> tr, status |-> OkStatus, hs |-> hs, crashed |-> TRUE,
              raised |-> msg]
      ELSE IF HasScopedErrorHandler(node.op)
        THEN [tr |-> NoteTranslation(tr, node.id, translated),
              status |-> SehStatus(hs2, this),
              hs |-> SehDtor(hs2, this),
              crashed |-> FALSE,
              raised |-> IF raised THEN msg ELSE "none"]
        ELSE [tr |-> NoteTranslation(tr, node.id, translated),
              status |-> OkStatus,
              hs |-> IF raised THEN Z3Error(hs, CtxOfTranslator, msg) ELSE hs,
              crashed |-> FALSE,
              raised |-> IF raised THEN msg ELSE "none"]

\* One visit of the traversal: the handler of node.op runs on node.  err is
\* the message of the error the solver reports during the visit ("none": the
\* solver calls succeed unless one of them is ill-sorted).
\* Returns the new map, the visit's status and the new handler state.
VisitNode(tr, types, hs, borrowed, node, err, onNull) ==
  IF node.op \in UnsupportedOps
    THEN [tr |-> tr, status |-> DefaultHandler(node), hs |-> hs,
          crashed |-> FALSE, raised |-> "none"]
  ELSE IF UsesNull(tr, node) /\ onNull = "crash"
    THEN [tr |-> tr, status |-> OkStatus, hs |-> hs, crashed |-> TRUE,
          raised |-> "none"]
  ELSE IF ~UsesNull(tr, node) /\ ~HandlerChecks(tr, types, node)
    THEN [tr |-> tr, status |-> OkStatus, hs |-> hs, crashed |-> TRUE,
          raised |-> "none"]
  ELSE
    Only({Record(tr, hs, node, err, built) :
            built \in {IF UsesNull(tr, node) THEN NullAst
                       ELSE Checked(Translate(tr, types, node, borrowed))}})

\* ------------------------------------------------ the functions translated
Node(id, op, operands, type, attr, value) ==
  [id |-> id, op |-> op, operands |-> operands, type |-> type, attr |-> attr,
   value |-> value]

LeafTypes ==
  {BitsT(w) : w \in 1..MaxWidth}
    \cup {ArrayT(BitsT(1), n) : n \in 1..MaxSize}
    \cup {TupleT(<<BitsT(1), ArrayT(BitsT(MaxWidth), MaxSize)>>)}

\* The literal value used for a type: bits 1, 0, 1, ... from the LSb.
RECURSIVE LiteralValue(_)
LiteralValue(t) ==
  CASE IsBits(t)  -> <<"bits", [i \in 1..t[2] |-> i % 2 = 1]>>
    [] IsArray(t) -> <<"array", [i \in 1..t[3] |-> LiteralValue(t[2])]>>
    [] IsTuple(t) -> <<"tuple", [i \in DOMAIN t[2] |-> LiteralValue(t[2][i])]>>

\* n copies of c1 after one c0.
OneThenRest(c0, c1, n) == [i \in 1..n |-> IF i = 1 THEN c0 ELSE c1]

\* The nodes that may come next in a well-typed function whose nodes so far
\* have the types `types`: any op over any of them, typed by the IR's rules.
NextNodes(types, nparams) ==
  LET k     == Len(types)
      id    == k + 1
      All   == 1..k
      B     == {i \in All : IsBits(types[i])}
      w(i)  == types[i][2]
      SameW == {p \in B \X B : w(p[1]) = w(p[2])}
      SameT == {p \in All \X All : types[p[1]] = types[p[2]]}
  IN
  {Node(id, "param", <<>>, t, nparams + 1, <<>>) : t \in LeafTypes}
  \cup {Node(id, "literal", <<>>, t, 0, LiteralValue(t)) : t \in LeafTypes}
  \cup {Node(id, op, p, types[p[1]], 0, <<>>) : op \in {"add", "sub", "udiv"},
                                               p \in SameW}
  \cup {Node(id, op, p, BitsT(1), 0, <<>>) : op \in CompareOps, p \in SameW}
  \cup {Node(id, op, p, types[p[1]], 0, <<>>) :
          op \in ShiftOps, p \in {q \in B \X B : w(q[2]) <= w(q[1])}}
  \cup {Node(id, op, p, types[p[1]], 0, <<>>) : op \in NaryOps, p \in SameW}
  \cup {Node(id, op, <<i>>, types[i], 0, <<>>) :
          op \in NaryOps \cup {"concat", "neg", "not", "reverse"}, i \in B}
  \cup {Node(id, "concat", p, BitsT(w(p[1]) + w(p[2])), 0, <<>>) : p \in B \X B}
  \cup {Node(id, "identity", <<i>>, types[i], 0, <<>>) : i \in All}
  \cup {Node(id, "one_hot", <<i>>, BitsT(w(i) + 1), a, <<>>) :
          i \in B, a \in {0, 1}}
  \cup {Node(id, "encode", <<i>>, BitsT(MinBitCountUnsigned(w(i) - 1)), 0, <<>>) :
          i \in {j \in B : w(j) >= 2}}
  \cup {Node(id, "decode", <<i>>, BitsT(2 ^ w(i)), 0, <<>>) : i \in B}
  \cup {Node(id, op, <<p[1]>>, BitsT(p[2]), 0, <<>>) :
          op \in {"sign_ext", "zero_ext"},
          p \in {q \in B \X (1..MaxWidth) : q[2] >= w(q[1])}}
  \cup {Node(id, "bit_slice", <<p[1]>>, BitsT(p[3]), p[2], <<>>) :
          p \in {q \in B \X (0..MaxWidth) \X (1..MaxWidth) :
                   q[2] + q[3] <= w(q[1])}}
  \cup {Node(id, "array", OneThenRest(p[1], p[2], n),
              ArrayT(types[p[1]], n), 0, <<>>) : p \in SameT, n \in 1..MaxSize}
  \cup {Node(id, "tuple", <<>>, TupleT(<<>>), 0, <<>>)}
  \cup {Node(id, "tuple", <<i>>, TupleT(<<types[i]>>), 0, <<>>) : i \in All}
  \cup {Node(id, "tuple", p, TupleT(<<types[p[1]], types[p[2]]>>), 0, <<>>) :
          p \in All \X All}
  \cup {Node(id, "array_index", p, types[p[1]][2], 0, <<>>) :
          p \in {q \in All \X B : IsArray(types[q[1]])}}
  \cup {Node(id, "tuple_index", <<p[1]>>, types[p[1]][2][p[2] + 1], p[2], <<>>) :
          p \in {q \in All \X (0..1) :
                   IsTuple(types[q[1]]) /\ q[2] < Len(types[q[1]][2])}}
  \cup {Node(id, "sel", <<s, p[1], p[2]>>, types[p[1]], 0, <<>>) :
          s \in {i \in B : w(i) = 1}, p \in SameT}
  \cup {Node(id, "sel", <<s, p[1], p[2]>>, types[p[1]], 1, <<>>) :
          s \in B, p \in SameT}
  \cup {Node(id, "one_hot_sel", <<s>> \o OneThenRest(p[1], p[2], w(s)),
              types[p[1]], 0, <<>>) : s \in B, p \in SameT}
  \cup {Node(id, op, <<p[1], p[2]>>, BitsT(p[3]), 0, <<>>) :
          op \in {"smul", "umul"}, p \in B \X B \X (1..MaxWidth)}

NoVisit == [node |-> Node(0, "none", <<>>, <<"none">>, 0, <<>>),
            injected |-> "none", err |-> "none", status |-> OkStatus]
NoResult == [kind |-> "none", status |-> OkStatus]

InitE ==
  /\ fnTypes = <<>>
  /\ numParams = 0
  /\ translations = <<>>
  /\ pc = "accept"
  /\ returned = NoResult
  /\ crashed = FALSE
  /\ reads = {}
  /\ lastVisit = NoVisit
  /\ errRaised = FALSE

NoProve == [pc |-> "none"]

\* A translator's slot before CreateAndTranslate, and the caller's contexts
\* before the caller makes them.
Translators == 1..MaxTranslators
NoTranslator ==
  [state |-> "none", borrowed |-> FALSE, ctx |-> Null, failed |-> FALSE,
   mkConfig |-> 0, mkContext |-> 0, delConfig |-> 0, delContext |-> 0]
NoOwn ==
  [tr        |-> [t \in Translators |-> NoTranslator],
   callerCtx |-> [c \in Contexts |-> "none"],
   encoderDel |-> [c \in Contexts |-> 0]]
NoCalc  == [op |-> "none", args |-> <<>>, term |-> NullAst, actual |-> 0]

Init ==
  /\ InitH /\ InitE /\ borrowed_context_ \in BOOLEAN
  /\ prove = NoProve /\ calc = NoCalc /\ own = NoOwn

\* function->Accept(translator) visits the next node; a visit that fails
\* ends the traversal and CreateAndTranslate returns its status.
Visit ==
  /\ pc = "accept" /\ ~crashed
  /\ Len(fnTypes) < MaxNodes
  /\ \E node \in NextNodes(fnTypes, numParams) :
       \E err \in (IF CallsSolver(node.op) THEN Msgs \cup {"none"} ELSE {"none"}),
          onNull \in (IF UsesNull(translations, node) THEN {"error", "crash"}
                                                      ELSE {"error"}) :
         \E r \in {VisitNode(translations, fnTypes, CurH, borrowed_context_, node,
                              err, onNull)} :
             /\ translations' = r.tr
             /\ SetH(r.hs)
             /\ crashed' = r.crashed
             /\ errRaised' = IF r.raised # "none" THEN TRUE ELSE errRaised
             /\ fnTypes' = Append(fnTypes, node.type)
             /\ numParams' = IF node.op = "param" THEN numParams + 1
                                                  ELSE numParams
             /\ reads' = reads \cup
                   {<<node.operands[i], GetValue(translations, node.operands[i])>> :
                      i \in DOMAIN node.operands}
             /\ lastVisit' = [node |-> node, injected |-> err, err |-> r.raised,
                               status |-> r.status]
             /\ pc' = IF r.status = OkStatus THEN "accept" ELSE "returned"
             /\ returned' = IF r.status = OkStatus THEN returned
                          ELSE [kind |-> "error", status |-> r.status]
  /\ UNCHANGED <<borrowed_context_, stack, lastOp, prove, calc, own>>

\* Every node has been visited: CreateAndTranslate returns the translator.
ReturnTranslator ==
  /\ pc = "accept" /\ ~crashed
  /\ Len(fnTypes) >= 1
  /\ pc' = "returned"
  /\ returned' = [kind |-> "translator", status |-> OkStatus]
  /\ UNCHANGED <<hvars, borrowed_context_, fnTypes, numParams, translations, crashed,
                 reads, lastVisit, errRaised, prove, calc, own>>

Next == Visit \/ ReturnTranslator

Spec == Init /\ [][Next]_vars

InitHandler ==
  /\ InitH /\ InitE /\ borrowed_context_ = FALSE
  /\ prove = NoProve /\ calc = NoCalc /\ own = NoOwn

SpecHandler == InitHandler /\ [][NextHandler]_vars

\* ------------------------------------------- PredicateToObjective, TryProve
\* A Predicate: its kind and, for kEqualToNode, its node.
Predicate(kind, node) == [kind |-> kind, node |-> node]

PredicateKinds == {"kEqualToZero", "kNotEqualToZero", "kEqualToNode"}

\* Z3Translator::GetValueKind
GetValueKind(value) == SortKind(SortOf(value))

\* The term PredicateToObjective's switch builds for p on a.
ObjectiveTerm(tr, p, a) ==
  CASE p.kind = "kEqualToZero"    -> NeZeroBool(a)
    [] p.kind = "kNotEqualToZero" -> EqZeroBool(a)
    [] p.kind = "kEqualToNode"    -> NeBool(a, GetValue(tr, p.node))

\* PredicateToObjective(p, a, translator); err is the error the solver
\* reports by itself during the call.  Returns the status, the objective
\* (NullAst when the status is not OK) and the new handler state.
PredicateToObjective(hs, tr, p, a, err) ==
  LET this == FreeHandler(hs)
      hs1  == SehCtor(hs, this, CtxOfTranslator)
  IN  IF p.kind = "kEqualToNode"
         /\ GetValueKind(GetValue(tr, p.node)) # "Z3_BV_SORT"
        THEN [status |-> InvalidArgumentError(
                           "Cannot compare to non-bits-valued node: "
                             \o NodeToString(p.node)),
              objective |-> NullAst,
              hs |-> SehDtor(hs1, this)]
      ELSE
        LET objective == Checked(ObjectiveTerm(tr, p, a))
            raised == err # "none" \/ objective = NullAst
            msg    == IF err # "none" THEN err ELSE "invalid argument"
            hs2    == IF raised THEN Z3Error(hs1, CtxOfTranslator, msg) ELSE hs1
        IN  [status |-> SehStatus(hs2, this),
             objective |-> IF SehStatus(hs2, this) = OkStatus THEN objective
                                                              ELSE NullAst,
             hs |-> SehDtor(hs2, this)]

\* A TryProve that takes any subject.
SubjectUnchecked(value) == TRUE

\* TryProve's check of the subject's term.
SubjectIsBits(value) == GetValueKind(value) = "Z3_BV_SORT"

\* A TryProve that takes every verdict but "sat" for a proof.
ProvedUnlessSat(satisfiable) == satisfiable # "Z3_L_TRUE"

\* TryProve's result for the verdict of Z3_solver_check.
Proved(satisfiable) == satisfiable = "Z3_L_FALSE"

Verdicts == {"Z3_L_FALSE", "Z3_L_UNDEF", "Z3_L_TRUE"}

\* The timeouts TryProve is called with, in milliseconds.
Timeouts == {0, 500}

\* The state of a call: where it is, its arguments, the solver calls it
\* has made, the objective it has built, what it returned.
Call(at, calls, subject, p, timeout, objective, status, value, verdict) ==
  [pc |-> at, calls |-> calls, subject |-> subject, p |-> p,
   timeout |-> timeout, objective |-> objective, status |-> status,
   value |-> value, verdict |-> verdict]

NoPredicate == Predicate("none", 0)

InitProve ==
  /\ InitH /\ InitE /\ borrowed_context_ = FALSE
  /\ prove = Call("encode", <<>>, 0, NoPredicate, "", NullAst, OkStatus, FALSE,
                  "none")
  /\ calc = NoCalc /\ own = NoOwn

\* The outcomes of handing the solver the term of node n: a null term has
\* no defined outcome (the solver reports an error, or the process dies).
OnNull(n) == IF translations[n] = NullAst THEN {"error", "crash"} ELSE {"error"}

\* TryProve, from the return of CreateAndTranslate to the subject's check:
\* an encoding error is returned; otherwise the timeout is set and a subject
\* that is not a bit-vector is refused.
TryProveEncoded ==
  /\ prove.pc = "encode" /\ pc = "returned"
  /\ IF returned.kind = "error"
       THEN prove' = [prove EXCEPT !.pc = "done", !.calls = <<"encode">>,
                                   !.status = returned.status]
       ELSE \E subject \in DOMAIN translations, kind \in PredicateKinds,
               m \in DOMAIN translations, timeout \in Timeouts,
               onNull \in {"error", "crash"} :
              /\ kind # "kEqualToNode" => m = 1
              /\ onNull \in OnNull(subject)
              /\ prove' =
                   [Call("objective", <<"encode", "set_timeout">>, subject,
                         Predicate(kind, m), ToString(timeout), NullAst,
                         OkStatus, FALSE, "none")
                    EXCEPT !.pc = IF onNull = "crash" THEN "crashed"
                                  ELSE IF SubjectIsBits(translations[subject])
                                    THEN "objective" ELSE "done",
                           !.status =
                             IF SubjectIsBits(translations[subject]) THEN OkStatus
                             ELSE InvalidArgumentError(
                                    "Cannot prove properties of non-bits-typed node: "
                                      \o NodeToString(subject))]
  /\ UNCHANGED <<hvars, evars, calc, own>>

\* TryProve builds the objective; a failure is returned.
TryProveObjective ==
  /\ prove.pc = "objective"
  /\ \E err \in Msgs \cup {"none"}, onNull \in OnNull(prove.p.node) :
       \E r \in {PredicateToObjective(CurH, translations, prove.p,
                                       GetValue(translations, prove.subject),
                                       err)} :
           IF prove.p.kind = "kEqualToNode" /\ onNull = "crash"
             THEN /\ prove' = [prove EXCEPT !.pc = "crashed"]
                  /\ UNCHANGED hvars
             ELSE /\ SetH(r.hs)
                  /\ prove' = [prove EXCEPT
                                 !.pc = IF r.status = OkStatus THEN "solve"
                                                               ELSE "done",
                                 !.calls = Append(@, "objective"),
                                 !.objective = r.objective,
                                 !.status = r.status]
                  /\ UNCHANGED <<stack, lastOp>>
  /\ UNCHANGED <<evars, calc, own>>

\* TryProve creates the solver, asserts the objective, checks and returns.
TryProveCheck ==
  /\ prove.pc = "solve"
  /\ \E satisfiable \in Verdicts :
       prove' = [prove EXCEPT
                   !.pc = "done",
                   !.calls = @ \o <<"mk_solver", "assert", "check">>,
                   !.value = Proved(satisfiable),
                   !.verdict = satisfiable]
  /\ UNCHANGED <<hvars, evars, calc, own>>

\* A caller that holds a translator calls PredicateToObjective itself, on
\* the term of any node.
CallPredicateToObjective ==
  /\ prove.pc = "encode" /\ pc = "returned" /\ returned.kind = "translator"
  /\ \E a \in DOMAIN translations, kind \in PredicateKinds,
        m \in DOMAIN translations, err \in Msgs \cup {"none"},
        onNull \in {"error", "crash"} :
       /\ kind # "kEqualToNode" => m = 1
       /\ onNull = "crash" =>
            (translations[a] = NullAst
               \/ (kind = "kEqualToNode" /\ translations[m] = NullAst))
       /\ \E r \in {PredicateToObjective(CurH, translations, Predicate(kind, m),
                                          GetValue(translations, a), err)} :
            IF onNull = "crash"
              THEN /\ prove' = [prove EXCEPT !.pc = "crashed"]
                   /\ UNCHANGED hvars
              ELSE /\ SetH(r.hs)
                   /\ prove' = Call("called", <<"objective">>, a,
                                    Predicate(kind, m), "", r.objective,
                                    r.status, FALSE, "none")
                   /\ UNCHANGED <<stack, lastOp>>
  /\ UNCHANGED <<evars, calc, own>>

NextProve ==
  \/ Visit
  \/ ReturnTranslator
  \/ TryProveEncoded
  \/ TryProveObjective
  \/ TryProveCheck
  \/ CallPredicateToObjective

SpecProve == InitProve /\ [][NextProve]_vars

\* --------------------------------------- who owns the config and context
\* Z3Translator(Z3_config, Function*): Z3_mk_context(config_), owned.  The
\* config is the one CreateAndTranslate(Function*) made with Z3_mk_config.
CtorOwned ==
  [NoTranslator EXCEPT !.state = "live", !.borrowed = FALSE,
                       !.mkConfig = 1, !.mkContext = 1]

\* Z3Translator(Z3_context, Function*, imported_params): the caller's ctx.
CtorBorrowed(c) ==
  [NoTranslator EXCEPT !.state = "live", !.borrowed = TRUE, !.ctx = c]

\* ~Z3Translator without the test of borrowed_context_.
DtorAlwaysDeletes(o, t) ==
  IF o.tr[t].borrowed
    THEN [o EXCEPT !.tr[t].state = "gone",
                   !.callerCtx[o.tr[t].ctx] = "deleted",
                   !.encoderDel[o.tr[t].ctx] = @ + 1]
    ELSE [o EXCEPT !.tr[t].state = "gone",
                   !.tr[t].delContext = @ + 1,
                   !.tr[t].delConfig = @ + 1]

\* ~Z3Translator: Z3_del_context and Z3_del_config unless borrowed.
Dtor(o, t) ==
  IF ~o.tr[t].borrowed
    THEN [o EXCEPT !.tr[t].state = "gone",
                   !.tr[t].delContext = @ + 1,
                   !.tr[t].delConfig = @ + 1]
    ELSE [o EXCEPT !.tr[t].state = "gone"]

\* What CreateAndTranslate leaves: the translator, or, when Accept returned
\* an error, nothing: the unique_ptr is destroyed on the early return.
Returned(o, t, ok) ==
  IF ok THEN o ELSE Dtor([o EXCEPT !.tr[t].failed = TRUE], t)

\* CreateAndTranslate(Function*)
CreateAndTranslateOwned ==
  \E t \in Translators, ok \in BOOLEAN :
    /\ own.tr[t].state = "none"
    /\ own' = Returned([own EXCEPT !.tr[t] = CtorOwned], t, ok)
    /\ UNCHANGED <<hvars, evars, prove, calc>>

\* CreateAndTranslate(Z3_context, Function*, imported_params)
CreateAndTranslateBorrowed ==
  \E t \in Translators, c \in Contexts, ok \in BOOLEAN :
    /\ own.tr[t].state = "none"
    /\ own.callerCtx[c] = "live"
    /\ own' = Returned([own EXCEPT !.tr[t] = CtorBorrowed(c)], t, ok)
    /\ UNCHANGED <<hvars, evars, prove, calc>>

\* The caller lets go of the unique_ptr CreateAndTranslate returned.
DestroyTranslator ==
  \E t \in Translators :
    /\ own.tr[t].state = "live"
    /\ own' = Dtor(own, t)
    /\ UNCHANGED <<hvars, evars, prove, calc>>

\* The caller's own Z3_mk_context and Z3_del_context, for borrowed mode.
CallerMkContext ==
  \E c \in Contexts :
    /\ own.callerCtx[c] = "none"
    /\ own' = [own EXCEPT !.callerCtx[c] = "live"]
    /\ UNCHANGED <<hvars, evars, prove, calc>>

CallerDelContext ==
  \E c \in Contexts :
    /\ own.callerCtx[c] = "live"
    /\ \A t \in Translators :
         own.tr[t].state = "live" => own.tr[t].ctx # c
    /\ own' = [own EXCEPT !.callerCtx[c] = "deleted"]
    /\ UNCHANGED <<hvars, evars, prove, calc>>

InitOwn ==
  /\ InitH /\ InitE /\ borrowed_context_ = FALSE
  /\ prove = NoProve /\ calc = NoCalc /\ own = NoOwn

NextOwn ==
  \/ CreateAndTranslateOwned
  \/ CreateAndTranslateBorrowed
  \/ DestroyTranslator
  \/ CallerMkContext
  \/ CallerDelContext

SpecOwn == InitOwn /\ [][NextOwn]_vars

\* ------------------------------------------------ the meaning of a term
\* The value the solver gives a closed term: a bit-vector is the number its
\* bits write, a Boolean is a truth value, an array is a function on the
\* values of its index sort, a tuple is the sequence of its fields.
Pow2(n) == 2 ^ n

RECURSIVE BitWise(_, _, _, _)
BitWise(tag, x, y, w) ==
  IF w = 0 THEN 0
  ELSE LET a == x % 2
           b == y % 2
           r == CASE tag = "bvand" -> a * b
                  [] tag = "bvor"  -> IF a + b > 0 THEN 1 ELSE 0
                  [] tag = "bvxor" -> (a + b) % 2
       IN  r + 2 * BitWise(tag, x \div 2, y \div 2, w - 1)

\* The signed reading of the w-bit vector x.
Signed(x, w) == IF x >= Pow2(w - 1) THEN x - Pow2(w) ELSE x

\* The value of the application a whose arguments have the values v and the
\* sorts s.
ValRule(a, v, s) ==
  LET tag == a[1] IN
  CASE tag = "numeral" ->
         SumSeq([i \in DOMAIN a[2] |-> IF a[2][i] THEN Pow2(i - 1) ELSE 0])
    [] tag = "int"    -> a[2] % Pow2(BvSize(a[3]))
    [] tag = "bvnot"  -> Pow2(BvSize(s[1])) - 1 - v[1]
    [] tag = "bvneg"  -> (Pow2(BvSize(s[1])) - v[1]) % Pow2(BvSize(s[1]))
    [] tag = "bvredor" -> IF v[1] # 0 THEN 1 ELSE 0
    [] tag = "bvadd"  -> (v[1] + v[2]) % Pow2(BvSize(s[1]))
    [] tag = "bvsub"  -> (v[1] + Pow2(BvSize(s[1])) - v[2]) % Pow2(BvSize(s[1]))
    [] tag = "bvmul"  -> (v[1] * v[2]) % Pow2(BvSize(s[1]))
    [] tag \in {"bvand", "bvor", "bvxor"} ->
         BitWise(tag, v[1], v[2], BvSize(s[1]))
    [] tag = "bvshl"  -> IF v[2] >= BvSize(s[1]) THEN 0
                         ELSE (v[1] * Pow2(v[2])) % Pow2(BvSize(s[1]))
    [] tag = "bvlshr" -> IF v[2] >= BvSize(s[1]) THEN 0
                         ELSE v[1] \div Pow2(v[2])
    [] tag = "bvashr" ->
         LET w == BvSize(s[1])
             n == IF v[2] >= w THEN w ELSE v[2]
         IN  IF v[1] < Pow2(w - 1) THEN v[1] \div Pow2(n)
             ELSE Pow2(w) - 1 - ((Pow2(w) - 1 - v[1]) \div Pow2(n))
    [] tag = "concat" -> v[1] * Pow2(BvSize(s[2])) + v[2]
    [] tag = "bvult"  -> v[1] < v[2]
    [] tag = "eq"     -> v[1] = v[2]
    [] tag = "not"    -> ~v[1]
    [] tag = "ite"    -> IF v[1] THEN v[2] ELSE v[3]
    [] tag = "zero_ext" -> v[1]
    [] tag = "sign_ext" ->
         Signed(v[1], BvSize(s[1])) % Pow2(BvSize(s[1]) + a[2])
    [] tag = "extract" -> (v[1] \div Pow2(a[3])) % Pow2(a[2] - a[3] + 1)
    [] tag = "const_array" -> [k \in 0..(Pow2(BvSize(a[2])) - 1) |-> v[1]]
    [] tag = "store"  -> [v[1] EXCEPT ![v[2]] = v[3]]
    [] tag = "select" -> v[1][v[2]]
    [] tag = "mk_tuple" -> v
    [] tag = "field"  -> v[1][a[2]]

RECURSIVE Val(_)
ValsOf(args) ==
  CASE Len(args) = 0 -> <<>>
    [] Len(args) = 1 -> <<Val(args[1])>>
    [] Len(args) = 2 -> <<Val(args[1]), Val(args[2])>>
    [] Len(args) = 3 -> <<Val(args[1]), Val(args[2]), Val(args[3])>>
    [] OTHER -> [i \in DOMAIN args |-> Val(args[i])]

Val(a) ==
  Only({Only({ValRule(x, p[1], p[2]) : p \in {<<ValsOf(Args(x)),
                                               SortsOf(Args(x))>>}})
        : x \in {a}})

\* ------------------------------------------ the helpers, called directly
\* Each action is one call of a helper of the translator on operands drawn
\* from the bounded sets; calc keeps the arguments and what the emitted term
\* evaluates to.
Called(op, args, term, actual) ==
  [op |-> op, args |-> args, term |-> term, actual |-> actual]

\* The w-bit literal of value v, as Z3_mk_int64 builds it.
Lit(v, w) == <<"int", v, BvSort(w)>>

\* The array literal whose element k (from 0) is the MaxWidth-bit value k + 1.
ElementOf(k) == k + 1
ArrayOfSize(s) ==
  CreateArray(ArrayT(BitsT(MaxWidth), s),
              [k \in 1..s |-> Lit(ElementOf(k - 1), MaxWidth)])

\* HandleArrayIndex on an array of s elements and a w-bit index of value i.
ArrayIndexCall ==
  \E s \in 1..MaxSize, w \in 1..MaxIndexWidth :
    \E i \in 0..(Pow2(w) - 1) :
      \E t \in {GetArrayElement(ArrayT(BitsT(MaxWidth), s), ArrayOfSize(s),
                                Lit(i, w))} :
        /\ calc' = Called("ArrayIndex", <<s, w, i>>, t, Val(t))
        /\ UNCHANGED <<hvars, evars, prove, own>>

\* HandleUMul / HandleSMul on an lw-bit and an rw-bit operand, for a w-bit
\* result.
MulCall ==
  \E w \in 1..MaxWidth, lw \in 1..MaxWidth, rw \in 1..MaxWidth,
     is_signed \in BOOLEAN :
    \E l \in 0..(Pow2(lw) - 1), r \in 0..(Pow2(rw) - 1) :
      \E t \in {HandleMul(w, Lit(l, lw), Lit(r, rw), is_signed)} :
        /\ calc' = Called(IF is_signed THEN "SMul" ELSE "UMul",
                          <<w, lw, l, rw, r>>, t, Val(t))
        /\ UNCHANGED <<hvars, evars, prove, own>>

\* FlattenValue then UnflattenZ3Ast on a w-bit term: directly, or with the
\* std::reverse HandleSelect puts between the two.
RoundTripCall ==
  \E w \in 1..MaxWidth, reversed \in BOOLEAN :
    \E v \in 0..(Pow2(w) - 1) :
      \E flat \in {FlattenValue(BitsT(w), Lit(v, w))} :
        \E t \in {UnflattenZ3Ast(BitsT(w),
                                 IF reversed THEN Reverse(flat) ELSE flat)} :
          /\ calc' = Called(IF reversed THEN "RoundTripReversed"
                                        ELSE "RoundTrip",
                            <<w, v>>, t, Val(t))
          /\ UNCHANGED <<hvars, evars, prove, own>>

\* The innermost array of a chain of stores.
RECURSIVE BaseOf(_)
BaseOf(z3_array) ==
  IF z3_array[1] = "store" THEN BaseOf(z3_array[2]) ELSE z3_array

\* The index sorts the translator uses for the type Array(bits[ew], s): the
\* one in TypeToSort's array sort, the domain CreateArray gives its constant
\* array, the sort of the index GetArrayElement selects with, and the sort
\* of the indices FlattenValue builds.
IndexSortCall ==
  \E s \in 0..MaxSize, ew \in 1..MaxWidth, w \in 1..MaxIndexWidth :
    \E type \in {ArrayT(BitsT(ew), s)} :
      \E array \in {CreateArray(type, [k \in 1..s |-> Lit(0, ew)])} :
        \E element \in {GetArrayElement(type, array, Lit(0, w))},
           flat \in {FlattenValue(type, array)} :
          /\ calc' = Called("IndexSort", <<s, ew, w>>, array,
                 {TypeToSort(type)[2], BaseOf(array)[2], SortOf(element[3])}
                   \cup {flat[i][4][3][3][3] : i \in DOMAIN flat})
          /\ UNCHANGED <<hvars, evars, prove, own>>

InitEval ==
  /\ InitH /\ InitE /\ borrowed_context_ = FALSE
  /\ prove = NoProve /\ calc = NoCalc /\ own = NoOwn

NextEval ==
  \/ ArrayIndexCall
  \/ MulCall
  \/ RoundTripCall
  \/ IndexSortCall

SpecEval == InitEval /\ [][NextEval]_vars

\* ------------------------------------------------ the comparison handlers
\* The operands of a call: an opcode and two w-bit values.
InitCompare ==
  /\ InitH /\ InitE /\ borrowed_context_ = FALSE
  /\ prove = NoProve /\ own = NoOwn
  /\ \E op \in CompareOps, w \in 1..MaxWidth :
       \E l \in 0..(Pow2(w) - 1), r \in 0..(Pow2(w) - 1) :
         calc = Called("input", <<w, l, r, op>>, NullAst, 0)

\* One call of a Handle<Compare> on two w-bit operands of values l and r:
\* HandleBinary passes the two operands' terms to the handler's function and
\* notes the term it returns.
CompareCall ==
  /\ calc.op = "input"
  /\ \E t \in {CompareAst(calc.args[4], Lit(calc.args[2], calc.args[1]),
                                        Lit(calc.args[3], calc.args[1]))} :
       calc' = Called(calc.args[4], calc.args, t, Val(t))
  /\ UNCHANGED <<hvars, evars, prove, own>>

NextCompare == CompareCall

SpecCompare == InitCompare /\ [][NextCompare]_vars

\* ------------------------------------------- select over any result type
\* The application a with the argument terms args in place of its own.
WithArgs(a, args) ==
  LET tag == a[1] IN
  CASE tag \in UnaryBv \cup {"bvredor", "not"} -> <<tag, args[1]>>
    [] tag \in BinaryBv \cup {"concat", "bvult", "eq", "select"} ->
         <<tag, args[1], args[2]>>
    [] tag \in {"ite", "store"} -> <<tag, args[1], args[2], args[3]>>
    [] tag \in {"zero_ext", "sign_ext", "const_array", "field"} ->
         <<tag, a[2], args[1]>>
    [] tag = "extract"  -> <<tag, a[2], a[3], args[1]>>
    [] tag = "mk_tuple" -> <<tag, a[2], args>>
    [] OTHER -> a

\* The term a with every pointer followed to the term the map holds.
RECURSIVE Resolve(_, _)
ResolveAll(args, tr) ==
  CASE Len(args) = 0 -> <<>>
    [] Len(args) = 1 -> <<Resolve(args[1], tr)>>
    [] Len(args) = 2 -> <<Resolve(args[1], tr), Resolve(args[2], tr)>>
    [] Len(args) = 3 -> <<Resolve(args[1], tr), Resolve(args[2], tr),
                          Resolve(args[3], tr)>>
    [] OTHER -> [i \in DOMAIN args |-> Resolve(args[i], tr)]

Resolve(a, tr) ==
  IF a[1] = "ref" THEN tr[a[2]]
  ELSE Only({WithArgs(a, r) : r \in {ResolveAll(Args(a), tr)}})

\* The IR values of a type.
RECURSIVE ValuesOf(_)
ValuesOf(t) ==
  CASE IsBits(t)  -> {<<"bits", b>> : b \in [1..t[2] -> BOOLEAN]}
    [] IsArray(t) -> {<<"array", e>> : e \in [1..t[3] -> ValuesOf(t[2])]}
    [] IsTuple(t) ->
         {<<"tuple", e>> :
            e \in {f \in [1..Len(t[2]) ->
                            UNION {ValuesOf(t[2][i]) : i \in 1..Len(t[2])}] :
                     \A i \in 1..Len(t[2]) : f[i] \in ValuesOf(t[2][i])}}

\* The value with every bit flipped.
RECURSIVE Complement(_)
Complement(v) ==
  IF IsBitsValue(v) THEN <<"bits", [i \in DOMAIN v[2] |-> ~v[2][i]]>>
  ELSE <<v[1], [i \in DOMAIN v[2] |-> Complement(v[2][i])]>>

\* The IR value of type t that the solver's value val stands for: the bits
\* from the LSb, the elements 0..size-1 of an array, the fields of a tuple.
RECURSIVE IrValueOf(_, _)
IrValueOf(t, val) ==
  CASE IsBits(t)  -> <<"bits", [i \in 1..t[2] |->
                                  (val \div Pow2(i - 1)) % 2 = 1]>>
    [] IsArray(t) -> <<"array", [i \in 1..t[3] |-> IrValueOf(t[2], val[i - 1])]>>
    [] IsTuple(t) -> <<"tuple", [i \in 1..Len(t[2]) |->
                                   IrValueOf(t[2][i], val[i])]>>

\* Result types: bits, arrays, a tuple, and tuples and arrays of those.
Pair == TupleT(<<BitsT(MaxWidth), BitsT(1)>>)
BitAndArray == TupleT(<<BitsT(1), ArrayT(BitsT(2), 2)>>)
ArrayOfPairs == ArrayT(TupleT(<<BitsT(2), BitsT(1)>>), 2)
SelectTypes ==
  {BitsT(w) : w \in 1..MaxWidth}
    \cup {ArrayT(BitsT(MaxWidth), 2), ArrayT(BitsT(1), MaxSize), Pair,
          BitAndArray, ArrayOfPairs, TupleT(<<Pair, BitsT(1)>>)}

\* The calls: sel with two cases, sel with one case and a default,
\* one_hot_sel with two cases, and the round trip without a select.
SelectKinds == {"sel", "sel_default", "one_hot_sel", "round_trip"}
SelectorWidth(kind) == IF kind = "one_hot_sel" THEN 2 ELSE 1
Selectors(kind) ==
  IF kind = "round_trip" THEN {0} ELSE 0..(Pow2(SelectorWidth(kind)) - 1)

\* The select node of the call: operand 1 is the selector, operands 2 and 3
\* the cases (for sel_default: the case and the default).
SelectNode(kind, t) ==
  Node(4, IF kind = "one_hot_sel" THEN "one_hot_sel" ELSE "sel", <<1, 2, 3>>,
       t, IF kind = "sel_default" THEN 1 ELSE 0, <<>>)

\* The terms recorded for the operands: the selector's literal, the literal
\* of v and the literal of v's complement.
SelectOperands(kind, t, v, sel) ==
  <<Lit(sel, SelectorWidth(kind)), TranslateLiteralValue(t, v),
    TranslateLiteralValue(t, Complement(v))>>

InitSelect ==
  /\ InitH /\ InitE /\ borrowed_context_ = FALSE
  /\ prove = NoProve /\ own = NoOwn
  /\ \E kind \in SelectKinds, t \in SelectTypes :
       \E v \in ValuesOf(t), sel \in Selectors(kind) :
         calc = Called("input", <<kind, t, v, sel>>, NullAst, 0)

\* HandleSel / HandleOneHotSel on the operands drawn.
SelectCall ==
  /\ calc.op = "input"
  /\ calc.args[1] # "round_trip"
  /\ \E tr \in {SelectOperands(calc.args[1], calc.args[2], calc.args[3],
                               calc.args[4])} :
       \E term \in {Resolve(HandleSelect(tr,
                              <<BitsT(SelectorWidth(calc.args[1])),
                                calc.args[2], calc.args[2]>>,
                              SelectNode(calc.args[1], calc.args[2])), tr)} :
         calc' = Called(calc.args[1], calc.args, term,
                        IrValueOf(calc.args[2], Val(term)))
  /\ UNCHANGED <<hvars, evars, prove, own>>

\* FlattenValue, std::reverse, UnflattenZ3Ast on the literal of v.
FlattenRoundTripCall ==
  /\ calc.op = "input"
  /\ calc.args[1] = "round_trip"
  /\ \E flat \in {FlattenValue(calc.args[2],
                    TranslateLiteralValue(calc.args[2], calc.args[3]))} :
       \E term \in {UnflattenZ3Ast(calc.args[2], Reverse(flat))} :
         calc' = Called("round_trip", calc.args, term,
                        IrValueOf(calc.args[2], Val(term)))
  /\ UNCHANGED <<hvars, evars, prove, own>>

NextSelect ==
  \/ SelectCall
  \/ FlattenRoundTripCall

SpecSelect == InitSelect /\ [][NextSelect]_vars

\* ------------------------------------------- the BDD simplification pass
\* An IR function is the expression of its return value: <<"param", name,
\* width>>, <<"literal", value, width>>, <<"not", a>>, <<"and", a, b>>,
\* <<"or", a, b>>, <<"concat", msbs, lsbs>>, <<"bit_slice", a, start, width>>,
\* and for the one-hot and select rewrites <<"eq" | "ugt" | "ult", a, b>>,
\* <<"sel", selector, on_true, on_false>>, <<"one_hot_sel", selector, cases>>,
\* <<"one_hot", a, lsb_prio>>, <<"nor", operands>> and the concat of any
\* number of operands <<"concat_n", operands>> (operand 1 has the MSbs).
IrParam(name, w)  == <<"param", name, w>>
IrLiteral(v, w)   == <<"literal", v, w>>
IrBitSlice(a, start, w) == <<"bit_slice", a, start, w>>
IrConcat(a, b)    == <<"concat", a, b>>
IrConcatN(ops)    == <<"concat_n", ops>>
IrNor(ops)        == <<"nor", ops>>
IrCompare(op, a, b) == <<op, a, b>>
IrSelect(selector, on_true, on_false) == <<"sel", selector, on_true, on_false>>
IrOneHotSelect(selector, cases) == <<"one_hot_sel", selector, cases>>
IrOneHot(a, lsb_prio) == <<"one_hot", a, lsb_prio>>
IrCompareOps == {"eq", "ugt", "ult"}

\* The parameters of the functions tried: x, and y one bit narrower.
ParamX == IrParam("x", MaxWidth)
ParamY == IrParam("y", MaxWidth - 1)

IrOperands(n) ==
  CASE n[1] \in {"not", "bit_slice", "one_hot"} -> <<n[2]>>
    [] n[1] \in {"and", "or", "concat"} \cup IrCompareOps -> <<n[2], n[3]>>
    [] n[1] = "sel"                       -> <<n[2], n[3], n[4]>>
    [] n[1] = "one_hot_sel"               -> <<n[2]>> \o n[3]
    [] n[1] \in {"concat_n", "nor"}       -> n[2]
    [] OTHER                              -> <<>>

WithOperands(n, ops) ==
  CASE n[1] = "not"                       -> <<"not", ops[1]>>
    [] n[1] = "bit_slice"                 -> <<"bit_slice", ops[1], n[3], n[4]>>
    [] n[1] = "one_hot"                   -> <<"one_hot", ops[1], n[3]>>
    [] n[1] \in {"and", "or", "concat"} \cup IrCompareOps ->
         <<n[1], ops[1], ops[2]>>
    [] n[1] = "sel"                       -> <<"sel", ops[1], ops[2], ops[3]>>
    [] n[1] = "one_hot_sel"               -> <<"one_hot_sel", ops[1], Tail(ops)>>
    [] n[1] \in {"concat_n", "nor"}       -> <<n[1], ops>>
    [] OTHER                              -> n

RECURSIVE IrWidth(_)
IrWidth(n) ==
  CASE n[1] \in {"param", "literal"} -> n[3]
    [] n[1] \in {"not", "and", "or"} -> IrWidth(n[2])
    [] n[1] = "concat"               -> IrWidth(n[2]) + IrWidth(n[3])
    [] n[1] = "bit_slice"            -> n[4]
    [] n[1] \in IrCompareOps         -> 1
    [] n[1] = "sel"                  -> IrWidth(n[3])
    [] n[1] = "one_hot_sel"          -> IrWidth(n[3][1])
    [] n[1] = "one_hot"              -> IrWidth(n[2]) + 1
    [] n[1] = "nor"                  -> IrWidth(n[2][1])
    [] n[1] = "concat_n"             ->
         SumSeq([i \in 1..Len(n[2]) |-> IrWidth(n[2][i])])

\* The value of one_hot on the w-bit input v: bit i is set when input bit i
\* is the first set bit from the priority end, bit w when no input bit is.
OneHotOf(v, w, lsb_prio) ==
  IF v = 0 THEN Pow2(w)
  ELSE LET set == {i \in 0..(w - 1) : (v \div Pow2(i)) % 2 = 1}
           first == CHOOSE i \in set :
                      \A j \in set : IF lsb_prio THEN i <= j ELSE i >= j
       IN  Pow2(first)

\* The or of the values vs[i..], each w bits wide.
RECURSIVE OrOfValues(_, _, _)
OrOfValues(vs, i, w) ==
  IF i > Len(vs) THEN 0
  ELSE BitWise("bvor", vs[i], OrOfValues(vs, i + 1, w), w)

\* The value of n when the parameters have the values env gives them.
RECURSIVE IrEval(_, _)
IrEvalAll(ops, env) == Strict([i \in 1..Len(ops) |-> IrEval(ops[i], env)])

RECURSIVE ConcatValue(_, _, _)
ConcatValue(ops, vs, i) ==
  IF i > Len(ops) THEN 0
  ELSE vs[i] * Pow2(SumSeq([k \in 1..(Len(ops) - i) |-> IrWidth(ops[i + k])]))
         + ConcatValue(ops, vs, i + 1)

IrEval(n, env) ==
  CASE n[1] = "param"   -> env[n[2]]
    [] n[1] = "literal" -> n[2]
    [] n[1] = "not"     -> Pow2(IrWidth(n)) - 1 - IrEval(n[2], env)
    [] n[1] = "and"     -> BitWise("bvand", IrEval(n[2], env), IrEval(n[3], env),
                                   IrWidth(n))
    [] n[1] = "or"      -> BitWise("bvor", IrEval(n[2], env), IrEval(n[3], env),
                                   IrWidth(n))
    [] n[1] = "concat"  -> IrEval(n[2], env) * Pow2(IrWidth(n[3]))
                             + IrEval(n[3], env)
    [] n[1] = "bit_slice" -> (IrEval(n[2], env) \div Pow2(n[3])) % Pow2(n[4])
    [] n[1] = "eq"  -> IF IrEval(n[2], env) = IrEval(n[3], env) THEN 1 ELSE 0
    [] n[1] = "ugt" -> IF IrEval(n[2], env) > IrEval(n[3], env) THEN 1 ELSE 0
    [] n[1] = "ult" -> IF IrEval(n[2], env) < IrEval(n[3], env) THEN 1 ELSE 0
    [] n[1] = "sel" -> IF IrEval(n[2], env) = 1 THEN IrEval(n[3], env)
                                                ELSE IrEval(n[4], env)
    [] n[1] = "one_hot_sel" ->
         LET sel == IrEval(n[2], env)
             vs  == IrEvalAll(n[3], env)
         IN  OrOfValues([i \in 1..Len(vs) |->
                           IF (sel \div Pow2(i - 1)) % 2 = 1 THEN vs[i] ELSE 0],
                        1, IrWidth(n))
    [] n[1] = "one_hot" -> OneHotOf(IrEval(n[2], env), IrWidth(n[2]), n[3])
    [] n[1] = "nor" ->
         Pow2(IrWidth(n)) - 1 - OrOfValues(IrEvalAll(n[2], env), 1, IrWidth(n))
    [] n[1] = "concat_n" -> ConcatValue(n[2], IrEvalAll(n[2], env), 1)

\* The parameters that occur in n, each <<name, width>>.
RECURSIVE IrParams(_)
IrParams(n) ==
  IF n[1] = "param" THEN {<<n[2], n[3]>>}
  ELSE UNION {IrParams(IrOperands(n)[i]) : i \in DOMAIN IrOperands(n)}

\* Every assignment of values to the parameters ps.
RECURSIVE EnvsOver(_)
EnvsOver(ps) ==
  IF ps = {} THEN {<<>>}
  ELSE LET p == CHOOSE q \in ps : TRUE
       IN  {(p[1] :> v) @@ e :
              v \in 0..(Pow2(p[2]) - 1), e \in EnvsOver(ps \ {p})}

\* The valuations of the parameters of n.
ValuationsOf(n) == EnvsOver(IrParams(n))

Valuations == [x : 0..(Pow2(MaxWidth) - 1), y : 0..(Pow2(MaxWidth - 1) - 1)]

\* The BDD oracle and BddKnown: a BDD is canonical, so bit i of n is known
\* exactly when it has the same value under every valuation.
IrBit(v, i) == (v \div Pow2(i)) % 2
BddKnown(n, i) ==
  Only({IF \A env \in V : IrBit(IrEval(n, env), i) = 1 THEN "One"
        ELSE IF \A env \in V : IrBit(IrEval(n, env), i) = 0 THEN "Zero"
        ELSE "Unknown" : V \in {ValuationsOf(n)}})

\* k_hi and k_lo: the known contiguous MSbs and LSbs of n.
RECURSIVE KnownFrom(_, _, _, _)
KnownFrom(n, i, step, count) ==
  IF count = IrWidth(n) \/ BddKnown(n, i) = "Unknown" THEN count
  ELSE KnownFrom(n, i + step, step, count + 1)

\* k_hi that stops one bit short of the whole node.
KnownPrefixShort(n) ==
  IF KnownFrom(n, IrWidth(n) - 1, -1, 0) = IrWidth(n) THEN IrWidth(n) - 1
  ELSE KnownFrom(n, IrWidth(n) - 1, -1, 0)

KnownPrefix(n) == KnownFrom(n, IrWidth(n) - 1, -1, 0)

\* k_lo that finds no known LSb.
KnownSuffixNone(n) == 0

KnownSuffix(n) == KnownFrom(n, 0, 1, 0)

\* The known bits taken to be zeros.
KnownLiteralZero(n, start, k) == IrLiteral(0, k)

\* The literal of the k known bits of n from bit start up.
KnownLiteral(n, start, k) ==
  IrLiteral((IrEval(n, CHOOSE env \in ValuationsOf(n) : TRUE) \div Pow2(start))
              % Pow2(k), k)

Rewritten(n, changed) == [fn |-> n, changed |-> changed]

\* The BDD proves that no two bits of a are ever set together.
AtMostOneBitTrue(a) ==
  \A env \in ValuationsOf(a) :
    \E i \in 0..IrWidth(a) : IrEval(a, env) \in {0, Pow2(i)}

\* The redundant one-hot kept, with nothing rewritten.
KeepRedundantOneHot(n) == Rewritten(n, FALSE)

\* A one_hot whose input can have at most one bit set adds nothing but the
\* "no bit set" MSb: the node becomes concat(eq(input, 0), input).
RemoveRedundantOneHotNode(n) ==
  IF AtMostOneBitTrue(n[2])
    THEN Rewritten(IrConcat(IrCompare("eq", n[2], IrLiteral(0, IrWidth(n[2]))),
                            n[2]), TRUE)
    ELSE Rewritten(n, FALSE)

\* The rewrites of a node that is no literal, its operands done: full
\* replacement, then the known prefix, then the known suffix, the last two
\* unless n is already the concat with that literal at that edge.
SimplifyNonLiteral(n) ==
  Only({
    LET w == k[1]
        k_hi == k[2]
        k_lo == k[3]
        prefix == KnownLiteral(n, w - k_hi, k_hi)
        suffix == KnownLiteral(n, 0, k_lo)
    IN  IF k_hi = w THEN Rewritten(KnownLiteral(n, 0, w), TRUE)
        ELSE IF k_hi > 0 /\ ~(n[1] = "concat" /\ n[2] = prefix)
          THEN Rewritten(IrConcat(prefix, IrBitSlice(n, 0, w - k_hi)), TRUE)
        ELSE IF k_lo > 0 /\ ~(n[1] = "concat" /\ n[3] = suffix)
          THEN Rewritten(IrConcat(IrBitSlice(n, k_lo, w - k_lo), suffix), TRUE)
        ELSE IF n[1] = "one_hot" THEN RemoveRedundantOneHotNode(n)
        ELSE Rewritten(n, FALSE)
    : k \in {<<IrWidth(n), KnownPrefix(n), KnownSuffix(n)>>}})

\* The rewrites applied to literals as well.
SimplifyNodeLiteralsToo(n) == SimplifyNonLiteral(n)

\* The rewrites of one node: a literal is left alone.
SimplifyNode(n) ==
  IF n[1] = "literal" THEN Rewritten(n, FALSE) ELSE SimplifyNonLiteral(n)

\* The pass: every node once, operands before users; changed is the OR of
\* the rewrites.
RECURSIVE BddSimplify(_)
SimplifyAll(ops) ==
  CASE Len(ops) = 0 -> <<>>
    [] Len(ops) = 1 -> <<BddSimplify(ops[1])>>
    [] Len(ops) = 2 -> <<BddSimplify(ops[1]), BddSimplify(ops[2])>>
    [] OTHER        -> Strict([i \in DOMAIN ops |-> BddSimplify(ops[i])])

Finish(n, rs) ==
  Only({Rewritten(r.fn, r.changed \/ \E i \in DOMAIN rs : rs[i].changed)
        : r \in {SimplifyNode(WithOperands(n, [i \in DOMAIN rs |-> rs[i].fn]))}})

\* The chain of two-way selects from n down the on_false operands, the top
\* select first; empty when n is no select.
RECURSIVE SelectChain(_)
SelectChain(n) ==
  IF n[1] = "sel" THEN <<n>> \o SelectChain(n[4]) ELSE <<>>

\* The BDD proves that no two of the one-bit nodes ps are ever 1 together,
\* and that one of them always is.
AtMostOneNodeTrue(ps) ==
  \A env \in ValuationsOf(IrNor(ps)) :
    \A i, j \in DOMAIN ps :
      i # j => ~(IrEval(ps[i], env) = 1 /\ IrEval(ps[j], env) = 1)

AtLeastOneNodeTrue(ps) ==
  \A env \in ValuationsOf(IrNor(ps)) :
    \E i \in DOMAIN ps : IrEval(ps[i], env) = 1

\* The one_hot_sel of a chain with the selector's bits in the cases' order:
\* p_0 at the MSb.
OneHotSelectOfChainLsbFirst(ps, xs, y) ==
  IF AtLeastOneNodeTrue(ps)
    THEN IrOneHotSelect(IrConcatN(Reverse(ps)), xs)
    ELSE IrOneHotSelect(IrConcatN(<<IrNor(ps)>> \o Reverse(ps)), <<y>> \o xs)

\* The one_hot_sel that stands for the chain with the predicates ps (p_k
\* first), the cases xs (x_0 first) and the last on_false operand y.
OneHotSelectOfChain(ps, xs, y) ==
  IF AtLeastOneNodeTrue(ps)
    THEN IrOneHotSelect(IrConcatN(ps), xs)
    ELSE IrOneHotSelect(IrConcatN(ps \o <<IrNor(ps)>>), <<y>> \o xs)

\* A chain of at least two selects whose predicates are disjoint is
\* collapsed as a whole, its predicates and cases simplified on their own.
CollapseSelectChain(n) ==
  Only({
    LET m  == Len(c)
        ps == Strict([i \in 1..m |-> BddSimplify(c[i][2])])
        xs == Strict([i \in 1..m |-> BddSimplify(c[m + 1 - i][3])])
        y  == BddSimplify(c[m][4])
    IN  Rewritten(OneHotSelectOfChain([i \in 1..m |-> ps[i].fn],
                                      [i \in 1..m |-> xs[i].fn], y.fn), TRUE)
    : c \in {SelectChain(n)}})

IsDisjointChain(n) ==
  /\ Len(SelectChain(n)) >= 2
  /\ AtMostOneNodeTrue([i \in 1..Len(SelectChain(n)) |-> SelectChain(n)[i][2]])

BddSimplify(f) ==
  IF IsDisjointChain(f) THEN CollapseSelectChain(f)
  ELSE Only({Only({Finish(n, rs) : rs \in {SimplifyAll(IrOperands(n))}})
             : n \in {f}})

\* The functions of the tests, with x of MaxWidth bits for the tests' 4, 16
\* and 32 and one-bit literals for their 7-bit and 10-bit ones.
ReplaceAllKnownValues ==
  IrConcat(<<"or", ParamX, <<"not", ParamX>>>>,
           <<"and", ParamY, <<"not", ParamY>>>>)
ReplaceKnownPrefix == <<"and", ParamX, IrConcat(IrLiteral(0, 1), ParamY)>>
ReplaceKnownSuffix == <<"or", ParamX, IrConcat(ParamY, IrLiteral(1, 1))>>
KnownSuffixButNotReplaced == IrConcat(ParamX, IrLiteral(1, 1))

\* The functions tried: the tests' and every expression of two levels of
\* operations over the parameters and the one-bit literals.
Leaves == {ParamX, ParamY, IrLiteral(0, 1), IrLiteral(1, 1)}
Grow(S) ==
  S \cup {<<"not", a>> : a \in S}
    \cup {<<op, p[1], p[2]>> :
            op \in {"and", "or"},
            p \in {q \in S \X S : IrWidth(q[1]) = IrWidth(q[2])}}
    \cup {IrConcat(p[1], p[2]) : p \in S \X S}
Functions ==
  Grow(Grow(Leaves))
    \cup {ReplaceAllKnownValues, ReplaceKnownPrefix, ReplaceKnownSuffix,
          KnownSuffixButNotReplaced}

\* BddSimplificationPass::RunOnFunction on one of the functions.
RunPass ==
  /\ calc = NoCalc
  /\ \E f \in Functions :
       \E r \in {BddSimplify(f)} :
         calc' = Called("BddSimplify", <<f>>, r.fn, r.changed)
  /\ UNCHANGED <<hvars, evars, prove, own>>

\* The pass run a second time, on what the first run left.
RunPassAgain ==
  /\ calc.op = "BddSimplify"
  /\ \E r \in {BddSimplify(calc.term)} :
       calc' = Called("BddSimplifyAgain", <<calc.term>>, r.fn, r.changed)
  /\ UNCHANGED <<hvars, evars, prove, own>>

NextBdd ==
  \/ RunPass
  \/ RunPassAgain

SpecBdd == InitEval /\ [][NextBdd]_vars

\* ---------------------------------- the one-hot and select-chain rewrites
\* The tests' parameters: the selector s, and the cases x0..x3 and y, which
\* no rewrite looks into and which are one bit wide here.
ParamS == IrParam("s", MaxWidth)
CaseParam(i) ==
  IrParam(CASE i = 0 -> "x0" [] i = 1 -> "x1" [] i = 2 -> "x2" [] i = 3 -> "x3",
          1)
DefaultParam == IrParam("y", 1)

\* The comparisons of v with a literal that are neither always 0 nor
\* always 1.
Predicates(v) ==
  {IrCompare("eq", v, IrLiteral(c, IrWidth(v))) : c \in 0..(Pow2(IrWidth(v)) - 1)}
    \cup {IrCompare("ugt", v, IrLiteral(c, IrWidth(v))) :
            c \in 0..(Pow2(IrWidth(v)) - 2)}
    \cup {IrCompare("ult", v, IrLiteral(c, IrWidth(v))) :
            c \in 1..(Pow2(IrWidth(v)) - 1)}

\* Select(p_k, x_k, Select(..., Select(p_0, x_0, y))) for the predicates ps
\* (p_0 first).
RECURSIVE ChainOf(_, _)
ChainOf(ps, i) ==
  IF i = 0 THEN DefaultParam
  ELSE IrSelect(ps[i], CaseParam(i - 1), ChainOf(ps, i - 1))

\* The functions of the tests, with s of 2 bits and the comparisons scaled
\* to the width of the parameter.
SelectChainOneHot ==
  ChainOf([i \in 1..4 |->
             IrCompare("eq", IrParam("s", 2), IrLiteral(i - 1, 2))], 4)
SelectChainOneHotOrZeroSelectors ==
  ChainOf(<<IrCompare("ugt", ParamS, IrLiteral(Pow2(MaxWidth) - 2, MaxWidth)),
            IrCompare("eq", ParamS, IrLiteral(1, MaxWidth)),
            IrCompare("ult", ParamS, IrLiteral(1, MaxWidth))>>, 3)
RemoveRedundantOneHot ==
  IrOneHot(IrConcatN(
             <<IrCompare("eq", ParamX, IrLiteral(0, MaxWidth)),
               IrCompare("eq", ParamX, IrLiteral(1, MaxWidth)),
               IrCompare("ugt", ParamX, IrLiteral(Pow2(MaxWidth) - 2, MaxWidth))>>),
           TRUE)

\* The sequences of two distinct predicates, and of three distinct eq's.
PredicateSeqs(v) ==
  ({<<p, q>> : p, q \in Predicates(v)} \ {<<p, p>> : p \in Predicates(v)})
    \cup {t \in {<<p, q, r>> : p, q, r \in {e \in Predicates(v) : e[1] = "eq"}} :
            t[1] # t[2] /\ t[1] # t[3] /\ t[2] # t[3]}

ChainFunctions ==
  {ChainOf(ps, Len(ps)) : ps \in PredicateSeqs(ParamS)}
    \cup {SelectChainOneHot, SelectChainOneHotOrZeroSelectors}

OneHotFunctions ==
  {IrOneHot(IrConcatN(ps), lsb_prio) :
     ps \in PredicateSeqs(ParamX), lsb_prio \in BOOLEAN}
    \cup {RemoveRedundantOneHot}

\* The pass on a chain of selects.
RunPassOnChain ==
  /\ calc = NoCalc
  /\ \E f \in ChainFunctions :
       \E r \in {BddSimplify(f)} :
         calc' = Called("SelectChain", <<f>>, r.fn, r.changed)
  /\ UNCHANGED <<hvars, evars, prove, own>>

\* The pass on a one_hot.
RunPassOnOneHot ==
  /\ calc = NoCalc
  /\ \E f \in OneHotFunctions :
       \E r \in {BddSimplify(f)} :
         calc' = Called("OneHot", <<f>>, r.fn, r.changed)
  /\ UNCHANGED <<hvars, evars, prove, own>>

NextBddOps ==
  \/ RunPassOnChain
  \/ RunPassOnOneHot

SpecBddOps == InitEval /\ [][NextBddOps]_vars

\* ------------------------------------------------------------- claims
LiveOn(c) == \E i \in DOMAIN stack : seh[stack[i]].ctx = c

\* C5: whenever a handler is live on the context an error is raised on, the
\* most recently installed live handler receives it (its status becomes
\* Internal "Z3 error: <message>"), also after an inner handler was released.
C5_ErrorReachesMostRecentLiveHandler ==
  (lastOp.op = "error" /\ stack # <<>> /\ LiveOn(lastOp.ctx))
    => seh[Top(stack)].status = InternalError("Z3 error: " \o lastOp.msg)

\* C6: under nested constructions and destructions g_handler designates the
\* most recently constructed live handler, every live handler remembers the
\* predecessor that was current at its construction, the release-time check
\* never fails, and with no handler live the pointer is null again.
C6_HandlerPointerIsAStack ==
  /\ g_handler = Top(stack)
  /\ ~checkFailed
  /\ \A i \in DOMAIN stack :
       /\ seh[stack[i]].live
       /\ seh[stack[i]].prev = (IF i = 1 THEN Null ELSE stack[i - 1])
  /\ (stack = <<>> => g_handler = Null)

\* C6 witness: an inner handler has just been released under an outer one.
C6_Witness ==
  lastOp.op = "dtor" /\ Len(stack) >= 1 /\ g_handler = stack[Len(stack)]

\* ---------------------------------------------------------------- encoding
Visited == lastVisit.node.op # "none"

\* C7: a solver error raised during a visit, whatever the opcode, makes the
\* visit return Internal "Z3 error: <message>", and CreateAndTranslate never
\* returns a translator after a solver error was raised in one of its visits.
C7_SolverErrorMakesVisitInternal ==
  /\ (Visited /\ lastVisit.err # "none") =>
       lastVisit.status = InternalError("Z3 error: " \o lastVisit.err)
  /\ returned.kind = "translator" => ~errRaised

\* C8: the visit of a node whose opcode has no handler returns Unimplemented
\* with the node's printable form, records nothing for the node, is the last
\* visit of the traversal, and CreateAndTranslate returns that error.
C8_UnsupportedOpcodeIsUnimplemented ==
  (Visited /\ lastVisit.node.op \in UnsupportedOps) =>
    /\ lastVisit.status.code = "Unimplemented"
    /\ lastVisit.status.msg =
         "Unhandled node for conversion: " \o NodeToString(lastVisit.node.id)
    /\ lastVisit.node.id \notin DOMAIN translations
    /\ Len(fnTypes) = lastVisit.node.id
    /\ pc = "returned"
    /\ returned = [kind |-> "error", status |-> lastVisit.status]

\* C8 witness: the second node of a function has an opcode without handler.
C8_Witness ==
  lastVisit.node.op \in UnsupportedOps /\ lastVisit.node.id = 2

\* Every entry of the map before a step is the same entry after it.
MapGrows ==
  \A n \in DOMAIN translations :
    n \in DOMAIN translations' /\ translations'[n] = translations[n]

\* C9: the map only grows, a term once written is never replaced, every
\* operand has a term when its user is visited, and every read of a node
\* returned the one term the map holds for it.
C9_TranslationsWrittenOnce ==
  /\ [][MapGrows]_vars
  /\ [](\A r \in reads :
          r[1] \in DOMAIN translations /\ r[2] = GetValue(translations, r[1]))

\* C9 witness: a user has read the term of an earlier node twice.
C9_Witness ==
  /\ Len(lastVisit.node.operands) = 2
  /\ lastVisit.node.operands[1] = lastVisit.node.operands[2]
  /\ reads # {}
  /\ lastVisit.status = OkStatus

\* C10: in the translator CreateAndTranslate returns, the term recorded for
\* every visited node has the sort TypeToSort gives for the node's type, and
\* for a Bits node the width of the type.
C10_RecordedSortMatchesType ==
  returned.kind = "translator" =>
  \A n \in DOMAIN translations :
    /\ SortOf(translations[n]) = TypeToSort(fnTypes[n])
    /\ IsBits(fnTypes[n]) =>
         (/\ IsBv(SortOf(translations[n]))
          /\ BvSize(SortOf(translations[n])) = GetFlatBitCount(fnTypes[n]))

\* The same for the terms the solver did build.
SortsOfBuiltTerms ==
  \A n \in DOMAIN translations :
    translations[n] # NullAst =>
      /\ SortOf(translations[n]) = TypeToSort(fnTypes[n])
      /\ IsBits(fnTypes[n]) =>
           (/\ IsBv(SortOf(translations[n]))
            /\ BvSize(SortOf(translations[n])) = GetFlatBitCount(fnTypes[n]))

\* On operands the solver built, the handlers' own solver calls are
\* well-sorted: the only errors are the ones the solver reports by itself.
HandlersAreWellSorted ==
  (Visited /\ lastVisit.injected = "none"
     /\ \A i \in DOMAIN lastVisit.node.operands :
          translations[lastVisit.node.operands[i]] # NullAst)
    => lastVisit.err = "none"

\* No XLS_CHECK of a handler fails unless the solver raised an error.
ChecksPass == crashed => errRaised

\* ------------------------------------------------------------------ proving
Range(f) == {f[i] : i \in DOMAIN f}

IsPrefix(q, r) == Len(q) <= Len(r) /\ q = SubSeq(r, 1, Len(q))

\* C1: TryProve returns true if and only if the verdict of the solver's
\* check is unsat (Z3_L_FALSE); a call that never reached the check returns
\* no true either.
C1_ProvedIffUnsat ==
  prove.pc = "done" =>
    (prove.value <=> (prove.status = OkStatus /\ prove.verdict = "Z3_L_FALSE"))

\* C1 witness: the solver answered unsat and TryProve returned true.
C1_Witness ==
  prove.pc = "done" /\ prove.verdict = "Z3_L_FALSE" /\ prove.value

\* The value of a bit-vector term of an objective, the terms of the nodes
\* having the values env gives them.
BvVal(t, env) ==
  CASE t[1] = "ref"     -> env[t[2]]
    [] t[1] = "numeral" -> SumSeq([i \in DOMAIN t[2] |->
                                     IF t[2][i] THEN 2 ^ (i - 1) ELSE 0])

\* The truth of an objective.
RECURSIVE Holds(_, _)
Holds(t, env) ==
  CASE t[1] = "not" -> ~Holds(t[2], env)
    [] t[1] = "eq"  -> BvVal(t[2], env) = BvVal(t[3], env)

\* The node whose term the term of n is (a handler may record the very term
\* of an operand).
TermOf(n) == GetValue(translations, n)[2]

\* The truth of the predicate p on subject a.
PredicateHolds(p, a, env) ==
  CASE p.kind = "kEqualToZero"    -> env[TermOf(a)] = 0
    [] p.kind = "kNotEqualToZero" -> env[TermOf(a)] # 0
    [] p.kind = "kEqualToNode"    -> env[TermOf(a)] = env[TermOf(p.node)]

\* Every assignment of values to the nodes, each within its width.
Envs ==
  {env \in [DOMAIN translations -> 0..(2 ^ (2 * MaxWidth) - 1)] :
     \A n \in DOMAIN translations :
       IsBits(fnTypes[n]) => env[n] < 2 ^ fnTypes[n][2]}

\* C2: an objective PredicateToObjective has returned is true exactly on
\* the values on which the predicate is false.
C2_ObjectiveIsNegatedPredicate ==
  (prove.pc \in {"solve", "done", "called"} /\ prove.objective # NullAst) =>
    \A env \in Envs :
      Holds(prove.objective, env) <=> ~PredicateHolds(prove.p, prove.subject, env)

\* C2 witness: an objective for "equal to another node" on two-bit terms.
C2_Witness ==
  /\ prove.pc = "solve" /\ prove.objective # NullAst
  /\ prove.p.kind = "kEqualToNode" /\ prove.p.node # prove.subject
  /\ fnTypes[prove.subject] = BitsT(2)

\* C3: PredicateToObjective on kEqualToNode with a side that is not a
\* bit-vector returns InvalidArgument and no objective.
C3_NonBitsSideIsInvalidArgument ==
  (/\ prove.pc = "called" /\ prove.p.kind = "kEqualToNode"
   /\ translations[prove.subject] # NullAst
   /\ translations[prove.p.node] # NullAst
   /\ (~IsBits(fnTypes[prove.subject]) \/ ~IsBits(fnTypes[prove.p.node])))
    => (prove.status.code = "InvalidArgument" /\ prove.objective = NullAst)

TryProveOrder ==
  <<"encode", "set_timeout", "objective", "mk_solver", "assert", "check">>

\* C4: TryProve's calls come in the order encode, set timeout, objective,
\* solver and assert, check; assert and check happen only in a call whose
\* encoding succeeded, whose subject is a bit-vector and whose objective was
\* built; a call that fails has made neither, an encoding error is returned
\* as it is, and a subject that is not a bit-vector is refused before the
\* objective.
C4_StepsInOrder ==
  prove.pc \in {"objective", "solve", "done"} =>
    /\ IsPrefix(prove.calls, TryProveOrder)
    /\ ({"assert", "check"} \cap Range(prove.calls) # {}) =>
         /\ returned.kind = "translator"
         /\ IsBv(SortOf(translations[prove.subject]))
         /\ SortOf(prove.objective) = BoolSort
         /\ prove.status = OkStatus
    /\ (prove.pc = "done" /\ prove.status # OkStatus) =>
         {"mk_solver", "assert", "check"} \cap Range(prove.calls) = {}
    /\ (prove.pc = "done" /\ returned.kind = "error") =>
         (prove.status = returned.status /\ prove.calls = <<"encode">>)
    /\ (prove.subject # 0 /\ ~IsBv(SortOf(translations[prove.subject]))) =>
         /\ prove.pc = "done"
         /\ prove.status.code = "InvalidArgument"
         /\ prove.calls = <<"encode", "set_timeout">>
    /\ (prove.pc = "done" /\ prove.status = OkStatus) =>
         prove.calls = TryProveOrder

\* C4 witness: a call that failed building the objective, after the timeout
\* was set, without reaching the solver.
C4_Witness ==
  /\ prove.pc = "done" /\ prove.status.code = "Internal"
  /\ prove.calls = <<"encode", "set_timeout", "objective">>
  /\ returned.kind = "translator"

\* ---------------------------------------------------------------- C11
\* C11: ArrayIndex clamps.  For an array of s >= 1 elements and an index of
\* any width (narrower than, equal to or wider than the array's index
\* sort), the emitted term evaluates to element s - 1 when the index value
\* is >= s, and to element i when the index value i is < s.
C11_IndexIsClamped ==
  calc.op = "ArrayIndex" =>
    LET s == calc.args[1]
        i == calc.args[3]
    IN  calc.actual = ElementOf(IF i >= s THEN s - 1 ELSE i)

\* ---------------------------------------------------------------- C12
\* C12: the multiply width rule.  For operands of widths l and r and a
\* result of width w, the term of an unsigned multiply evaluates to
\* (lhs * rhs) mod 2^w, the term of a signed multiply to the low w bits of
\* the product of the operands read as signed numbers, and the term has
\* exactly w bits.
C12_MulIsTruncatedProduct ==
  calc.op \in {"UMul", "SMul"} =>
    LET w  == calc.args[1]
        lw == calc.args[2]
        l  == calc.args[3]
        rw == calc.args[4]
        r  == calc.args[5]
    IN  /\ SortOf(calc.term) = BvSort(w)
        /\ calc.op = "UMul" => calc.actual = (l * r) % Pow2(w)
        /\ calc.op = "SMul" =>
              calc.actual = (Signed(l, lw) * Signed(r, rw)) % Pow2(w)

\* A signed multiply of a negative operand, wider than the result, by a
\* positive one, whose truncated product is not zero.
C12_Witness ==
  /\ calc.op = "SMul"
  /\ calc.args[1] < calc.args[2]
  /\ Signed(calc.args[3], calc.args[2]) < 0
  /\ Signed(calc.args[5], calc.args[4]) > 0
  /\ calc.actual # 0

\* ---------------------------------------------------------------- C13
\* C13: the flatten/unflatten round trip.  For every Bits type t and every
\* term x of that type, UnflattenZ3Ast(t, FlattenValue(t, x)), applied
\* directly with no reversal of the flat sequence, has the value of x.
C13_RoundTripDirect ==
  calc.op = "RoundTrip" => calc.actual = calc.args[2]

\* What the code does give: x comes back when the flat sequence is reversed
\* between the two calls, as HandleSelect does; FlattenValue puts the LSb
\* first and UnflattenZ3Ast reads the MSb first.
RoundTripReversedIsIdentity ==
  calc.op = "RoundTripReversed" =>
    /\ calc.actual = calc.args[2]
    /\ SortOf(calc.term) = BvSort(calc.args[1])

\* ---------------------------------------------------------------- C14
\* C14: for every array type Array(e, s), the index sort used by TypeToSort,
\* and by CreateArray, FlattenValue and GetArrayElement alike, is the
\* bit-vector sort of width ceil(log2(max(s, 1))).
C14_IndexWidthIsCeilLog2 ==
  calc.op = "IndexSort" =>
    LET s == calc.args[1]
    IN  calc.actual = {BvSort(CeilLog2(IF s >= 1 THEN s ELSE 1))}

\* What the code does give: the four agree, and for s >= 1 the width is the
\* number of bits needed to write s itself, the w with 2^(w-1) <= s < 2^w;
\* for s = 0 the width asked for is 0, which is no sort of the solver.
IndexWidthWritesSize ==
  calc.op = "IndexSort" =>
    LET s == calc.args[1]
    IN  IF s = 0 THEN calc.actual = {BadSort}
        ELSE \E w \in 1..s :
               /\ 2 ^ (w - 1) <= s /\ s < 2 ^ w
               /\ calc.actual = {BvSort(w)}

\* ---------------------------------------------------------------- C15
\* C15: ownership of the solver context.  A translator created in owned
\* mode creates its config and its context and destroys each exactly once,
\* when it is destroyed, also when encoding failed; a translator created in
\* borrowed mode never creates or destroys a config or a context, so the
\* caller's context is still there after the translator is gone.
C15_OwnedOnceBorrowedNever ==
  /\ \A t \in Translators :
       LET tr == own.tr[t] IN
       tr.state # "none" =>
         IF tr.borrowed
           THEN /\ tr.mkConfig = 0 /\ tr.mkContext = 0
                /\ tr.delConfig = 0 /\ tr.delContext = 0
                /\ own.callerCtx[tr.ctx] = "deleted" => tr.state = "gone"
           ELSE /\ tr.mkConfig = 1 /\ tr.mkContext = 1
                /\ tr.delConfig  = (IF tr.state = "gone" THEN 1 ELSE 0)
                /\ tr.delContext = (IF tr.state = "gone" THEN 1 ELSE 0)
  /\ \A c \in Contexts : own.encoderDel[c] = 0

\* An owned translator whose encoding failed is gone, and a borrowed one is
\* gone as well while the context it used is still live.
C15_Witness ==
  \E t, u \in Translators :
    /\ own.tr[t].state = "gone" /\ ~own.tr[t].borrowed /\ own.tr[t].failed
    /\ own.tr[u].state = "gone" /\ own.tr[u].borrowed
    /\ own.callerCtx[own.tr[u].ctx] = "live"

\* ------------------------------------------------------- C16 .. C20
\* A run of the pass: calc.args[1] is the function given, calc.term the
\* function left, calc.actual the flag returned.
PassRan == calc.op \in {"BddSimplify", "BddSimplifyAgain"}

Same(a, b) ==
  /\ IrWidth(a) = IrWidth(b)
  /\ \A env \in Valuations : IrEval(a, env) = IrEval(b, env)

ConstBit(n, i) ==
  \A e1, e2 \in Valuations :
    IrBit(IrEval(n, e1), i) = IrBit(IrEval(n, e2), i)

Constant(n) == \A e1, e2 \in Valuations : IrEval(n, e1) = IrEval(n, e2)

ValueOf(n) == IrEval(n, CHOOSE env \in Valuations : TRUE)

RECURSIVE Subterms(_)
Subterms(n) ==
  {n} \cup UNION {Subterms(IrOperands(n)[i]) : i \in DOMAIN IrOperands(n)}

RECURSIVE IrWellTyped(_)
IrWellTyped(n) ==
  /\ \A i \in DOMAIN IrOperands(n) : IrWellTyped(IrOperands(n)[i])
  /\ CASE n[1] = "literal"     -> n[2] < Pow2(n[3])
        [] n[1] \in {"and", "or"} -> IrWidth(n[2]) = IrWidth(n[3])
        [] n[1] = "bit_slice"   -> n[3] + n[4] <= IrWidth(n[2])
        [] OTHER                -> TRUE

\* C16: the pass is idempotent.  A second run, on the function a first run
\* left, makes no rewrite and returns changed == false.
C16_SecondRunChangesNothing ==
  calc.op = "BddSimplifyAgain" =>
    /\ ~calc.actual
    /\ calc.term = calc.args[1]

\* C17: change flag fidelity.  The flag returned is true exactly when the
\* function after the pass differs structurally from the function before.
C17_ChangedIffDifferent ==
  PassRan => (calc.actual <=> calc.term # calc.args[1])

\* A rewrite below a top node that is itself left alone.
C17_Witness ==
  /\ PassRan /\ calc.actual
  /\ calc.args[1][1] = "concat" /\ calc.term[1] = "concat"
  /\ calc.args[1][3] = calc.term[3]
  /\ calc.args[1][2] # calc.term[2]

C19_AllKnownBecomesLiteral ==
  PassRan =>
    /\ \A n \in Subterms(calc.term) : Constant(n) => n[1] = "literal"
    /\ Constant(calc.args[1]) /\ calc.args[1][1] # "literal" =>
         /\ calc.term = IrLiteral(ValueOf(calc.args[1]), IrWidth(calc.args[1]))
         /\ calc.actual

\* The test's all-known function, folded to its literal of ones and zeros.
C19_Witness ==
  /\ calc.op = "BddSimplify"
  /\ calc.args[1] = ReplaceAllKnownValues
  /\ calc.term[1] = "literal" /\ calc.term[2] # 0
  /\ calc.actual

\* C20: known prefix and suffix.  For a node n of width w that is not fully
\* known, with k_hi known MSbs and k_lo known LSbs: when k_hi > 0 it becomes
\* concat(lit(prefix), bitslice(n, 0, w - k_hi)), or when k_lo > 0
\* concat(bitslice(n, k_lo, w - k_lo), lit(suffix)); but a node that is
\* already the concat with that literal at that edge is left as it is, and
\* the pass returns changed == false when nothing else was rewritten.
Khi(n) ==
  CHOOSE k \in 0..IrWidth(n) :
    /\ \A i \in (IrWidth(n) - k)..(IrWidth(n) - 1) : ConstBit(n, i)
    /\ k = IrWidth(n) \/ ~ConstBit(n, IrWidth(n) - k - 1)

Klo(n) ==
  CHOOSE k \in 0..IrWidth(n) :
    /\ \A i \in 0..(k - 1) : ConstBit(n, i)
    /\ k = IrWidth(n) \/ ~ConstBit(n, k)

IsLeaf(n) == n[1] \in {"param", "literal"}

C20_KnownEdgeIsSpliced ==
  PassRan /\ ~Constant(calc.args[1]) =>
    LET n == calc.args[1]
        r == calc.term
        w == IrWidth(n)
        hiGuard == n[1] = "concat" /\ IrWidth(n[2]) = Khi(n)
        loGuard == n[1] = "concat" /\ IrWidth(n[3]) = Klo(n)
    IN  IF Khi(n) > 0 /\ ~hiGuard
          THEN /\ r[1] = "concat"
               /\ r[2] = IrLiteral(ValueOf(n) \div Pow2(w - Khi(n)), Khi(n))
               /\ r[3][1] = "bit_slice"
               /\ r[3][3] = 0 /\ r[3][4] = w - Khi(n)
               /\ r[3][2][1] = n[1] /\ Same(r[3][2], n)
               /\ calc.actual
        ELSE IF Klo(n) > 0 /\ ~loGuard
          THEN /\ r[1] = "concat"
               /\ r[3] = IrLiteral(ValueOf(n) % Pow2(Klo(n)), Klo(n))
               /\ r[2][1] = "bit_slice"
               /\ r[2][3] = Klo(n) /\ r[2][4] = w - Klo(n)
               /\ r[2][2][1] = n[1] /\ Same(r[2][2], n)
               /\ calc.actual
        ELSE /\ r[1] = n[1]
             /\ \A i \in DOMAIN IrOperands(n) :
                  Same(IrOperands(r)[i], IrOperands(n)[i])
             /\ (\A i \in DOMAIN IrOperands(n) : IsLeaf(IrOperands(n)[i]))
                  => r = n /\ ~calc.actual

\* The test's known prefix, spliced out of its and.
C20_Witness ==
  /\ calc.op = "BddSimplify"
  /\ calc.args[1] = ReplaceKnownPrefix
  /\ calc.term = IrConcat(IrLiteral(0, 1),
                          IrBitSlice(ReplaceKnownPrefix, 0, MaxWidth - 1))
  /\ calc.actual

\* ------------------------------------------------- the tests of the pass
\* What bdd_simplification_pass_test.cc expects of the four functions.
TestsPass ==
  /\ BddSimplify(ReplaceAllKnownValues)
       = Rewritten(IrLiteral(Pow2(MaxWidth + MaxWidth - 1)
                               - Pow2(MaxWidth - 1), MaxWidth + MaxWidth - 1),
                   TRUE)
  /\ BddSimplify(ReplaceKnownPrefix)
       = Rewritten(IrConcat(IrLiteral(0, 1),
                            IrBitSlice(ReplaceKnownPrefix, 0, MaxWidth - 1)),
                   TRUE)
  /\ BddSimplify(ReplaceKnownSuffix)
       = Rewritten(IrConcat(IrBitSlice(ReplaceKnownSuffix, 1, MaxWidth - 1),
                            IrLiteral(1, 1)), TRUE)
  /\ BddSimplify(KnownSuffixButNotReplaced)
       = Rewritten(KnownSuffixButNotReplaced, FALSE)


\* ------------------------------------------------------------ comparisons
\* The relation an opcode stands for, on the w-bit values l and r.
Reference(op, w, l, r) ==
  CASE op = "ule" -> l <= r
    [] op = "ult" -> l < r
    [] op = "uge" -> l >= r
    [] op = "ugt" -> l > r
    [] op = "sgt" -> Signed(l, w) > Signed(r, w)
    [] op = "sle" -> Signed(l, w) <= Signed(r, w)
    [] op = "slt" -> Signed(l, w) < Signed(r, w)
    [] op = "sge" -> Signed(l, w) >= Signed(r, w)
    [] op = "eq"  -> l = r
    [] op = "ne"  -> l # r

Compared == calc.op \in CompareOps

\* What the handler of op emits for the operands of the call in calc.
Emitted(op) ==
  Val(CompareAst(op, Lit(calc.args[2], calc.args[1]),
                     Lit(calc.args[3], calc.args[1])))

\* C23 (as stated): the term HandleSGt emits evaluates to 1 exactly when both
\* operands are zero, and to 0 for every other pair of values.
C23_SGtIsOneIffBothZero ==
  calc.op = "sgt" =>
    (calc.actual = 1 <=> (calc.args[2] = 0 /\ calc.args[3] = 0))

\* C23 (amended): the term HandleSGt emits, not(reduce-or(slt | eq)), is one
\* bit wide and evaluates to 1 exactly when lhs is greater than rhs as
\* two's-complement numbers: slt and eq are one bit each, so the reduce-or
\* leaves their or as it is.
C23_SGtIsSignedGreaterThan ==
  calc.op = "sgt" =>
    /\ SortOf(calc.term) = BvSort(1)
    /\ calc.term = Not(ReduceOr(Or(SLt(calc.term[2][2][2][4][2][3],
                                       calc.term[2][2][2][4][3][3]),
                                   Eq(calc.term[2][2][2][4][2][3],
                                      calc.term[2][2][2][4][3][3]))))
    /\ SortOf(calc.term[2][2]) = BvSort(1)
    /\ calc.actual \in {0, 1}
    /\ calc.actual = 1 <=>
         Signed(calc.args[2], calc.args[1]) > Signed(calc.args[3], calc.args[1])
    /\ (calc.args[2] = 0 /\ calc.args[3] = 0) => calc.actual = 0

\* SGt called on a positive lhs and a negative rhs: lhs is the smaller one
\* read unsigned, and the term is 1.
C23_Witness ==
  /\ calc.op = "sgt"
  /\ calc.args[2] # 0
  /\ calc.args[2] < calc.args[3]
  /\ Signed(calc.args[2], calc.args[1]) > Signed(calc.args[3], calc.args[1])
  /\ calc.actual = 1

\* C24: every comparison handler emits a one-bit term whose value is 1 when
\* the opcode's relation holds of the operands' values and 0 when it does
\* not (unsigned for U*, Eq and Ne; two's complement for S*), and for every
\* pair of operands exactly one of lt, eq, gt is 1, unsigned and signed.
C24_ComparisonsMatchReference ==
  Compared =>
    /\ SortOf(calc.term) = BvSort(1)
    /\ calc.actual =
         (IF Reference(calc.op, calc.args[1], calc.args[2], calc.args[3])
            THEN 1 ELSE 0)
    /\ calc.op = "ult" => calc.term = Msb(Sub(ZextBy1b(calc.term[4][2][3]),
                                              ZextBy1b(calc.term[4][3][3])))
    /\ calc.op = "slt" => calc.term = Msb(Sub(SextBy1b(calc.term[4][2][3]),
                                              SextBy1b(calc.term[4][3][3])))
    /\ Emitted("ult") + Emitted("eq") + Emitted("ugt") = 1
    /\ Emitted("slt") + Emitted("eq") + Emitted("sgt") = 1

\* SLt called on a negative lhs and a positive rhs: the unsigned order is
\* the other way round.
C24_Witness ==
  /\ calc.op = "slt"
  /\ calc.args[2] > calc.args[3]
  /\ calc.actual = 1


\* ------------------------------------------------- select and round trip
SelectDone == calc.op \in SelectKinds

\* The case the selector of the call chooses: 1 for the literal of v, 2 for
\* the literal of its complement, 0 when a one_hot_sel selector is not
\* one-hot.
Chosen ==
  CASE calc.op = "round_trip" -> 1
    [] calc.op \in {"sel", "sel_default"} -> calc.args[4] + 1
    [] calc.op = "one_hot_sel" ->
         IF calc.args[4] \in {1, 2} THEN calc.args[4] ELSE 0

\* C25: the term HandleSelect builds for a sel or a one_hot_sel over a
\* result type t has the sort of t and stands for the chosen case, field
\* for field, element for element and bit for bit; and the term
\* UnflattenZ3Ast(t, reverse(FlattenValue(t, v))) stands for v.
C25_SelectKeepsTheChosenCase ==
  SelectDone =>
    /\ SortOf(calc.term) = TypeToSort(calc.args[2])
    /\ Chosen = 1 => calc.actual = calc.args[3]
    /\ Chosen = 2 => calc.actual = Complement(calc.args[3])

\* A sel over the tuple of a bit and an array that chose its second case,
\* whose fields and elements differ from one another.
C25_Witness ==
  /\ calc.op = "sel"
  /\ calc.args[2] = BitAndArray
  /\ calc.args[4] = 1
  /\ calc.actual = Complement(calc.args[3])
  /\ calc.actual[2][2][2][1] # calc.actual[2][2][2][2]
  /\ calc.actual[2][2][2][1][2][1] # calc.actual[2][2][2][1][2][2]

\* The round trip alone, on an array of tuples.
RoundTripOfNestedType ==
  /\ calc.op = "round_trip"
  /\ calc.args[2] = ArrayOfPairs
  /\ calc.actual = calc.args[3]
  /\ calc.actual[2][1] # calc.actual[2][2]


\* ------------------------------------------------------- C21 and C22
\* The function after the pass returns what the function before returned,
\* under every valuation of the parameters of either.
SameOnOwnParams(a, b) ==
  /\ IrWidth(a) = IrWidth(b)
  /\ \A env \in ValuationsOf(IrConcat(a, b)) : IrEval(a, env) = IrEval(b, env)

\* The predicates of the chain f, p_k first, and its cases, x_0 first.
ChainPredicates(f) ==
  [i \in 1..Len(SelectChain(f)) |-> SelectChain(f)[i][2]]
ChainCases(f) ==
  [i \in 1..Len(SelectChain(f)) |->
     SelectChain(f)[Len(SelectChain(f)) + 1 - i][3]]
ChainDefault(f) == SelectChain(f)[Len(SelectChain(f))][4]

\* No valuation makes two of the predicates ps 1; some predicate is 1 under
\* every valuation.
Disjoint(ps) ==
  \A env \in ValuationsOf(IrConcatN(ps)) :
    Cardinality({i \in DOMAIN ps : IrEval(ps[i], env) = 1}) <= 1
Exhaustive(ps) ==
  \A env \in ValuationsOf(IrConcatN(ps)) :
    Cardinality({i \in DOMAIN ps : IrEval(ps[i], env) = 1}) >= 1

\* C21: select-chain conversion.  A chain of selects whose predicates are
\* pairwise disjoint becomes a one_hot_sel: its selector is
\* concat(p_k, ..., p_0), p_k at the MSb, and its cases are [x_0, ..., x_k];
\* when the predicates are not exhaustive the selector has nor(p_0..p_k) as
\* its lowest bit and y is the lowest case, and when they are exhaustive
\* neither the nor nor y appears.  The pass returns changed == true and the
\* function's value is kept.
C21_DisjointChainBecomesOneHotSelect ==
  calc.op = "SelectChain" /\ Disjoint(ChainPredicates(calc.args[1])) =>
    LET f  == calc.args[1]
        ps == ChainPredicates(f)
        k1 == Len(ps)
        r  == calc.term
    IN  /\ calc.actual
        /\ r[1] = "one_hot_sel"
        /\ r[2][1] = "concat_n"
        /\ \A i \in 1..k1 : r[2][2][i] = ps[i]
        /\ IF Exhaustive(ps)
             THEN /\ Len(r[2][2]) = k1
                  /\ r[3] = ChainCases(f)
                  /\ \A n \in Subterms(r) : n[1] # "nor" /\ n # ChainDefault(f)
             ELSE /\ Len(r[2][2]) = k1 + 1
                  /\ r[2][2][k1 + 1][1] = "nor"
                  /\ {r[2][2][k1 + 1][2][i] : i \in 1..k1} = {ps[i] : i \in 1..k1}
                  /\ Len(r[2][2][k1 + 1][2]) = k1
                  /\ r[3] = <<ChainDefault(f)>> \o ChainCases(f)
        /\ IrWidth(r[2]) = Len(r[3])
        /\ SameOnOwnParams(r, f)

\* The test's chain over three disjoint predicates that leave a value of s
\* uncovered: four selector bits, the nor the lowest, and y the first case.
C21_Witness ==
  /\ calc.op = "SelectChain"
  /\ calc.args[1] = SelectChainOneHotOrZeroSelectors
  /\ calc.actual
  /\ calc.term[1] = "one_hot_sel"
  /\ Len(calc.term[3]) = 4
  /\ calc.term[3][1] = DefaultParam
  /\ calc.term[2][2][4][1] = "nor"

\* The bits of the input of the one_hot f that can never be set when no bit
\* of higher priority is: bit i of the input, from the LSb.
InputBits(f) == 0..(IrWidth(f[2]) - 1)
HigherPriority(f, i) ==
  {j \in InputBits(f) : IF f[3] THEN j < i ELSE j > i}
NeverSetGivenHigher(f, i) ==
  \A env \in ValuationsOf(f) :
    ~(/\ IrBit(IrEval(f[2], env), i) = 1
      /\ \A j \in HigherPriority(f, i) : IrBit(IrEval(f[2], env), j) = 0)

\* The input bits of the one_hot f are mutually exclusive.
MutuallyExclusive(f) ==
  \A env \in ValuationsOf(f) :
    Cardinality({i \in InputBits(f) : IrBit(IrEval(f[2], env), i) = 1}) <= 1

OneHotRan == calc.op = "OneHot"

OneHotAndChainTestsPass ==
  /\ BddSimplify(RemoveRedundantOneHot).changed
  /\ BddSimplify(RemoveRedundantOneHot).fn[1] = "concat"
  /\ BddSimplify(RemoveRedundantOneHot).fn[2][1] = "eq"
  /\ BddSimplify(RemoveRedundantOneHot).fn[3][1] = "concat_n"
  /\ BddSimplify(SelectChainOneHot)
       = Rewritten(IrOneHotSelect(
           IrConcatN([i \in 1..4 |->
              IrCompare("eq", IrParam("s", 2), IrLiteral(4 - i, 2))]),
           [i \in 1..4 |-> CaseParam(i - 1)]), TRUE)
  /\ BddSimplify(SelectChainOneHotOrZeroSelectors)
       = Rewritten(IrOneHotSelect(
           IrConcatN(
             <<IrCompare("ult", ParamS, IrLiteral(1, MaxWidth)),
               IrCompare("eq", ParamS, IrLiteral(1, MaxWidth)),
               IrCompare("ugt", ParamS, IrLiteral(Pow2(MaxWidth) - 2, MaxWidth)),
               IrNor(<<IrCompare("ult", ParamS, IrLiteral(1, MaxWidth)),
                       IrCompare("eq", ParamS, IrLiteral(1, MaxWidth)),
                       IrCompare("ugt", ParamS,
                                 IrLiteral(Pow2(MaxWidth) - 2, MaxWidth))>>)>>),
           <<DefaultParam, CaseParam(0), CaseParam(1), CaseParam(2)>>), TRUE)

=============================================================================
